---- MODULE Spec2Model ----
(***************************************************************************)
(* paybadge: the badge parameter sanitiser and validator, the SVG badge    *)
(* generator and the two badge routes of the HTTP server.                  *)
(*                                                                         *)
(* A JavaScript string is a sequence of UTF-16 code units.  A code unit is *)
(* written as a one-character TLA+ string when it is printable ASCII       *)
(* (32..126, the grave accent excepted) and as "\\uXXXX" (four lower-case  *)
(* hex digits) otherwise.                                                  *)
(***************************************************************************)
EXTENDS Integers, Sequences, FiniteSets, TLC

VARIABLES op, arg, argAfter, ret, first, ifNoneMatch, requests, order,
          ratePromises, results

vars ==
  <<op, arg, argAfter, ret, first, ifNoneMatch, requests, order,
    ratePromises, results>>

----------------------------------------------------------------------------
(* Characters *)

Ascii ==
  <<" ", "!", "\"", "#", "$", "%", "&", "'", "(", ")", "*", "+",
    ",", "-", ".", "/", "0", "1", "2", "3", "4", "5", "6", "7",
    "8", "9", ":", ";", "<", "=", ">", "?", "@", "A", "B", "C",
    "D", "E", "F", "G", "H", "I", "J", "K", "L", "M", "N", "O",
    "P", "Q", "R", "S", "T", "U", "V", "W", "X", "Y", "Z", "[",
    "\\", "]", "^", "_", "\\u0060", "a", "b", "c", "d", "e", "f", "g",
    "h", "i", "j", "k", "l", "m", "n", "o", "p", "q", "r", "s",
    "t", "u", "v", "w", "x", "y", "z", "{", "|", "}", "~">>

HexLower == <<"0", "1", "2", "3", "4", "5", "6", "7", "8", "9",
              "a", "b", "c", "d", "e", "f">>

HexUpper == <<"0", "1", "2", "3", "4", "5", "6", "7", "8", "9",
              "A", "B", "C", "D", "E", "F">>

HexChars == {HexLower[i] : i \in 1..16} \cup {HexUpper[i] : i \in 1..16}

HexVal == [c \in HexChars |->
             (CHOOSE i \in 1..16 : HexLower[i] = c \/ HexUpper[i] = c) - 1]

\* The code unit with the given number (String.fromCharCode).
Chr(code) ==
  IF code \in 32..126
  THEN Ascii[code - 31]
  ELSE "\\u" \o HexLower[((code \div 4096) % 16) + 1]
             \o HexLower[((code \div 256) % 16) + 1]
             \o HexLower[((code \div 16) % 16) + 1]
             \o HexLower[(code % 16) + 1]

UpperLetters == {Ascii[i] : i \in 34..59}

LowerLetters == {Ascii[i] : i \in 66..91}

Digits == {Ascii[i] : i \in 17..26}

ToLowerMap == [c \in UpperLetters |->
                 Ascii[(CHOOSE i \in 34..59 : Ascii[i] = c) + 32]]

\* Case folding of a regular expression with the i flag (no u flag): only
\* the ASCII letters fold onto ASCII letters.
ToLower(c) == IF c \in UpperLetters THEN ToLowerMap[c] ELSE c

\* \w of a regular expression.
WordChars == UpperLetters \cup LowerLetters \cup Digits \cup {"_"}

\* WhiteSpace and LineTerminator code units: \s and String.prototype.trim.
WhiteSpaceCodes ==
  {9, 10, 11, 12, 13, 32, 160, 5760, 8232, 8233, 8239, 8287, 12288, 65279}
    \cup (8192..8202)

WhiteSpace == {Chr(c) : c \in WhiteSpaceCodes}

----------------------------------------------------------------------------
(* decodeURIComponent *)

\* The byte written %XX at position i of s, or -1 when no escape is there.
ByteAt(s, i) ==
  IF /\ i + 2 <= Len(s)
     /\ s[i] = "%"
     /\ s[i + 1] \in HexChars
     /\ s[i + 2] \in HexChars
  THEN 16 * HexVal[s[i + 1]] + HexVal[s[i + 2]]
  ELSE -1

\* Number of bytes of the UTF-8 sequence a lead byte starts, 0 when the byte
\* starts none.
Utf8Length(b) ==
  IF b < 128 THEN 1
  ELSE IF b \in 194..223 THEN 2
  ELSE IF b \in 224..239 THEN 3
  ELSE IF b \in 240..244 THEN 4
  ELSE 0

\* The range the first continuation byte must be in, after lead byte b.
SecondByteRange(b) ==
  IF b = 224 THEN 160..191
  ELSE IF b = 237 THEN 128..159
  ELSE IF b = 240 THEN 144..191
  ELSE IF b = 244 THEN 128..143
  ELSE 128..191

\* The code units of code point cp.
CodeUnits(cp) ==
  IF cp < 65536
  THEN <<Chr(cp)>>
  ELSE <<Chr(55296 + ((cp - 65536) \div 1024)),
         Chr(56320 + ((cp - 65536) % 1024))>>

\* The escape sequence that starts at position i of s (s[i] = "%"):
\* ok is FALSE when it is malformed, else units are the decoded code units
\* and len the number of characters of s it takes.
Escape(s, i) ==
  LET b  == ByteAt(s, i)
      n  == IF b < 0 THEN 0 ELSE Utf8Length(b)
      b1 == ByteAt(s, i + 3)
      b2 == ByteAt(s, i + 6)
      b3 == ByteAt(s, i + 9)
      bad == [ok |-> FALSE, units |-> <<>>, len |-> 0]
  IN  IF n = 0 THEN bad
      ELSE IF n = 1 THEN [ok |-> TRUE, units |-> <<Chr(b)>>, len |-> 3]
      ELSE IF b1 \notin SecondByteRange(b) THEN bad
      ELSE IF n = 2
        THEN [ok |-> TRUE,
              units |-> CodeUnits((b - 192) * 64 + (b1 - 128)),
              len |-> 6]
      ELSE IF b2 \notin 128..191 THEN bad
      ELSE IF n = 3
        THEN [ok |-> TRUE,
              units |-> CodeUnits((b - 224) * 4096 + (b1 - 128) * 64
                                    + (b2 - 128)),
              len |-> 9]
      ELSE IF b3 \notin 128..191 THEN bad
      ELSE [ok |-> TRUE,
            units |-> CodeUnits((b - 240) * 262144 + (b1 - 128) * 4096
                                  + (b2 - 128) * 64 + (b3 - 128)),
            len |-> 12]

\* The decoding of s from position i on.  The characters up to the next %
\* are copied, the escape sequence there is decoded, and so on.
RECURSIVE DecodeFrom(_, _)
DecodeFrom(s, i) ==
  LET percents == {j \in i..Len(s) : s[j] = "%"}
  IN  IF percents = {}
      THEN [ok |-> TRUE, v |-> SubSeq(s, i, Len(s))]
      ELSE LET j == CHOOSE m \in percents : \A k \in percents : m <= k
               e == Escape(s, j)
           IN  IF ~e.ok THEN [ok |-> FALSE, v |-> <<>>]
               ELSE LET r == DecodeFrom(s, j + e.len)
                    IN  [ok |-> r.ok,
                         v  |-> SubSeq(s, i, j - 1) \o e.units \o r.v]

\* decodeURIComponent(s): ok is FALSE when it throws URIError.
decodeURIComponent(s) == DecodeFrom(s, 1)

----------------------------------------------------------------------------
(* sanitizeText *)

MAX_TEXT_LENGTH == 50

Max(a, b) == IF a >= b THEN a ELSE b

\* lit (lower case) is at position i of s, compared case-insensitively.
MatchesAt(s, i, lit) ==
  /\ i + Len(lit) - 1 <= Len(s)
  /\ \A k \in 1..Len(lit) : ToLower(s[i + k - 1]) = lit[k]

\* The last position of the longest run of characters of class C that
\* starts at position i of s; i - 1 when there is none.
RunEnd(s, i, C) ==
  LET others == {j \in i..Len(s) : s[j] \notin C}
  IN  IF others = {} THEN Max(Len(s), i - 1)
      ELSE (CHOOSE j \in others : \A k \in others : j <= k) - 1

\* Length of the match of /<[^>]*>/ at position i of s, 0 when none.
TagMatch(s, i) ==
  IF s[i] = "<" /\ \E j \in (i + 1)..Len(s) : s[j] = ">"
  THEN (CHOOSE j \in (i + 1)..Len(s) :
          s[j] = ">" /\ \A k \in (i + 1)..(j - 1) : s[k] # ">") - i + 1
  ELSE 0

\* Length of the match of /on\w+\s*=/i at position i of s, 0 when none.
\* \w, \s and = are disjoint, so only the longest run of each can match.
HandlerMatch(s, i) ==
  IF ~MatchesAt(s, i, <<"o", "n">>) THEN 0
  ELSE LET w == RunEnd(s, i + 2, WordChars)
           e == RunEnd(s, w + 1, WhiteSpace)
       IN  IF w >= i + 2 /\ e + 1 <= Len(s) /\ s[e + 1] = "="
           THEN e + 1 - i + 1
           ELSE 0

Keywords ==
  << <<"s", "c", "r", "i", "p", "t">>,
     <<"a", "l", "e", "r", "t">>,
     <<"e", "v", "a", "l">>,
     <<"p", "r", "o", "m", "p", "t">>,
     <<"c", "o", "n", "f", "i", "r", "m">> >>

\* Length of the match of /script|alert|eval|prompt|confirm/i at i, 0 when
\* none (no keyword is a prefix of another, so the first alternative that
\* matches is the only one).
KeywordMatch(s, i) ==
  IF \E k \in 1..Len(Keywords) : MatchesAt(s, i, Keywords[k])
  THEN Len(Keywords[CHOOSE k \in 1..Len(Keywords) :
                      /\ MatchesAt(s, i, Keywords[k])
                      /\ \A j \in 1..(k - 1) : ~MatchesAt(s, i, Keywords[j])])
  ELSE 0

\* The character class of the last replace written without the ampersand,
\* /[<>"']/g: what C1 rules out.
EntityCharsWithoutAmpersand == {"<", ">", "\"", "'"}

EntityChars == {"<", ">", "&", "\"", "'"}

\* Length of the match at position i of s of the pattern named p.
MatchLen(p, s, i) ==
  CASE p = "tag"        -> TagMatch(s, i)
    [] p = "javascript" ->
         IF MatchesAt(s, i, <<"j", "a", "v", "a", "s", "c", "r", "i", "p",
                              "t", ":">>)
         THEN 11 ELSE 0
    [] p = "vbscript"   ->
         IF MatchesAt(s, i, <<"v", "b", "s", "c", "r", "i", "p", "t", ":">>)
         THEN 9 ELSE 0
    [] p = "handler"    -> HandlerMatch(s, i)
    [] p = "keyword"    -> KeywordMatch(s, i)
    [] p = "entity"     -> IF s[i] \in EntityChars THEN 1 ELSE 0

\* The least element of a set of positions, 0 when it is empty.
FirstOf(positions) ==
  IF positions = {} THEN 0
  ELSE CHOOSE m \in positions : \A k \in positions : m <= k

\* s.replace(/p/g, '') from position i on: the matches are found left to
\* right in s itself and do not overlap; the result is not scanned again.
\* RemoveNext is given the position j of the first match from i on.
RECURSIVE RemoveFrom(_, _, _)
RemoveNext(p, s, i, j) ==
  IF j = 0 THEN SubSeq(s, i, Len(s))
  ELSE SubSeq(s, i, j - 1) \o RemoveFrom(p, s, j + MatchLen(p, s, j))

RemoveFrom(p, s, i) ==
  RemoveNext(p, s, i, FirstOf({j \in i..Len(s) : MatchLen(p, s, j) > 0}))

RemoveAll(p, s) == RemoveFrom(p, s, 1)

\* String.prototype.trim
Trim(s) ==
  LET keep == {i \in 1..Len(s) : s[i] \notin WhiteSpace}
  IN  IF keep = {} THEN <<>>
      ELSE SubSeq(s, CHOOSE i \in keep : \A j \in keep : i <= j,
                     CHOOSE i \in keep : \A j \in keep : i >= j)

\* s.substring(0, n)
Substring0(s, n) == IF Len(s) <= n THEN s ELSE SubSeq(s, 1, n)

\* A catch that drops a text decodeURIComponent rejects.
TryDecodeOrEmpty(text) ==
  LET d == decodeURIComponent(text) IN IF d.ok THEN d.v ELSE <<>>

\* try { decoded = decodeURIComponent(text) } catch { decoded = text }
TryDecode(text) ==
  LET d == decodeURIComponent(text) IN IF d.ok THEN d.v ELSE text

\* The patterns of the chain of replace calls, in its order.
Patterns ==
  <<"tag", "javascript", "vbscript", "handler", "keyword", "entity">>

\* The replace calls from the k-th on, applied to s.
RECURSIVE ReplaceChain(_, _)
ReplaceChain(s, k) ==
  IF k > Len(Patterns) THEN s
  ELSE ReplaceChain(RemoveAll(Patterns[k], s), k + 1)

\* sanitizeText applied to a string.
SanitizeString(text) ==
  Substring0(Trim(ReplaceChain(TryDecode(text), 1)), MAX_TEXT_LENGTH)

----------------------------------------------------------------------------
(* JavaScript values: v.t is the type; v.s the code units of a string;   *)
(* v.n the value of a number, the length of an array, 1 for true.         *)

Undefined == [t |-> "undefined", s |-> <<>>, n |-> 0]

Null == [t |-> "null", s |-> <<>>, n |-> 0]

Str(s) == [t |-> "string", s |-> s, n |-> 0]

Num(n) == [t |-> "number", s |-> <<>>, n |-> n]

Bool(b) == [t |-> "boolean", s |-> <<>>, n |-> IF b THEN 1 ELSE 0]

\* An array of n elements none of which is looked at.
Arr(n) == [t |-> "array", s |-> <<>>, n |-> n]

\* ToBoolean
Truthy(v) ==
  CASE v.t = "undefined" -> FALSE
    [] v.t = "null"      -> FALSE
    [] v.t = "string"    -> v.s # <<>>
    [] v.t = "number"    -> v.n # 0
    [] v.t = "boolean"   -> v.n = 1
    [] v.t = "array"     -> TRUE

\* a || b
\* a ?? b, which keeps an empty string where a || b takes b: what C6 rules
\* out.
OrNullish(a, b) == IF a.t \in {"undefined", "null"} THEN b ELSE a

Or(a, b) == IF Truthy(a) THEN a ELSE b

\* sanitizeText(text)
sanitizeText(text) ==
  IF text.t # "string" THEN Str(<<>>) ELSE Str(SanitizeString(text.s))

----------------------------------------------------------------------------
(* Objects.  An object is a record of the seven keys the program reads;   *)
(* a key the object does not have holds Undefined.  A reference is an     *)
(* object, null or undefined (no argument).                               *)

Keys == {"leftText", "rightText", "leftColor", "rightColor", "style",
         "icon", "text"}

EmptyObject ==
  [leftText |-> Undefined, rightText |-> Undefined, leftColor |-> Undefined,
   rightColor |-> Undefined, style |-> Undefined, icon |-> Undefined,
   text |-> Undefined]

Object(m) == [k |-> "object", m |-> m]

NullRef == [k |-> "null", m |-> EmptyObject]

UndefinedRef == [k |-> "undefined", m |-> EmptyObject]

----------------------------------------------------------------------------
(* validateBadgeParams *)

DEFAULT_CONFIG ==
  [leftText   |-> Str(<<"p", "a", "y", "b", "a", "d", "g", "e">>),
   rightText  |-> Str(<<"c", "r", "y", "p", "t", "o">>),
   leftColor  |-> Str(<<"#", "5", "5", "5">>),
   rightColor |-> Str(<<"#", "4", "c", "1">>),
   style      |-> Str(<<"s", "t", "a", "n", "d", "a", "r", "d">>),
   icon       |-> Null,
   width      |-> 110,
   height     |-> 20,
   fontSize   |-> 11,
   fontFamily |-> "Verdana,Geneva,DejaVu Sans,sans-serif"]

\* error of a validation result that has none (JavaScript null).
NoError == "null"

TextTooLongError == "Text too long. Maximum 50 characters allowed."

\* The message of the TypeError that reading property key of null throws.
NullReadError(key) ==
  "Cannot read properties of null (reading '" \o key \o "')"

\* v.length >= MAX_TEXT_LENGTH, the comparison off by one: what C4 rules out.
TooLongFromLimit(v) ==
  \/ v.t = "string" /\ Len(v.s) >= MAX_TEXT_LENGTH
  \/ v.t = "array" /\ v.n >= MAX_TEXT_LENGTH

\* v.length > MAX_TEXT_LENGTH: only strings and arrays have a length, and
\* undefined > 50 is false.
TooLong(v) ==
  \/ v.t = "string" /\ Len(v.s) > MAX_TEXT_LENGTH
  \/ v.t = "array" /\ v.n > MAX_TEXT_LENGTH

\* colorRegex.test(s) for /^#[0-9A-Fa-f]{3,6}$/
colorRegexTest(s) ==
  /\ Len(s) \in 4..7
  /\ s[1] = "#"
  /\ \A i \in 2..Len(s) : s[i] \in HexChars

\* The check of the colours with && for ||, which resets them only when both
\* fail the pattern: what C7 rules out.
CheckColorsWhenBothFail(sanitized) ==
  IF /\ ~colorRegexTest(sanitized.leftColor.s)
     /\ ~colorRegexTest(sanitized.rightColor.s)
  THEN [sanitized EXCEPT !.leftColor  = DEFAULT_CONFIG.leftColor,
                         !.rightColor = DEFAULT_CONFIG.rightColor]
  ELSE sanitized

\* The check of the colours resetting each colour on its own: what C8 rules
\* out.
CheckColorsEachAlone(sanitized) ==
  [sanitized EXCEPT
     !.leftColor  = IF colorRegexTest(sanitized.leftColor.s)
                    THEN sanitized.leftColor
                    ELSE DEFAULT_CONFIG.leftColor,
     !.rightColor = IF colorRegexTest(sanitized.rightColor.s)
                    THEN sanitized.rightColor
                    ELSE DEFAULT_CONFIG.rightColor]

\* The check of the two colours of the sanitized parameters.
CheckColors(sanitized) ==
  IF \/ ~colorRegexTest(sanitized.leftColor.s)
     \/ ~colorRegexTest(sanitized.rightColor.s)
  THEN [sanitized EXCEPT !.leftColor  = DEFAULT_CONFIG.leftColor,
                         !.rightColor = DEFAULT_CONFIG.rightColor]
  ELSE sanitized

\* sanitized with no default where no icon is given, so that icon is
\* undefined: what C20 rules out.
SanitizedWithoutIconDefault(params) ==
  [leftText   |-> Or(sanitizeText(params.leftText), DEFAULT_CONFIG.leftText),
   rightText  |-> Or(sanitizeText(params.rightText),
                     DEFAULT_CONFIG.rightText),
   leftColor  |-> Or(sanitizeText(params.leftColor),
                     DEFAULT_CONFIG.leftColor),
   rightColor |-> Or(sanitizeText(params.rightColor),
                     DEFAULT_CONFIG.rightColor),
   style      |-> Or(sanitizeText(params.style), DEFAULT_CONFIG.style),
   icon       |-> Or(sanitizeText(params.icon), Undefined),
   text       |-> Undefined]

\* const sanitized = {...}
Sanitized(params) ==
  [leftText   |-> Or(sanitizeText(params.leftText), DEFAULT_CONFIG.leftText),
   rightText  |-> Or(sanitizeText(params.rightText),
                     DEFAULT_CONFIG.rightText),
   leftColor  |-> Or(sanitizeText(params.leftColor),
                     DEFAULT_CONFIG.leftColor),
   rightColor |-> Or(sanitizeText(params.rightColor),
                     DEFAULT_CONFIG.rightColor),
   style      |-> Or(sanitizeText(params.style), DEFAULT_CONFIG.style),
   icon       |-> Or(sanitizeText(params.icon), DEFAULT_CONFIG.icon),
   text       |-> Undefined]

\* validateBadgeParams(params): the returned {isValid, error, params}.
\* With no argument params is {}.
validateBadgeParams(ref) ==
  IF ref.k = "null"
  THEN \* params.leftText throws a TypeError, which the catch turns into
       \* a result
       [isValid |-> FALSE,
        error   |-> "Parameter validation failed: "
                      \o NullReadError("leftText"),
        params  |-> NullRef]
  ELSE IF \/ TooLong(Or(ref.m.leftText, Str(<<>>)))
          \/ TooLong(Or(ref.m.rightText, Str(<<>>)))
  THEN [isValid |-> FALSE,
        error   |-> TextTooLongError,
        params  |-> NullRef]
  ELSE [isValid |-> TRUE,
        error   |-> NoError,
        params  |-> Object(CheckColors(Sanitized(ref.m)))]

----------------------------------------------------------------------------
(* Numbers.  The layout is computed in JavaScript numbers, IEEE 754       *)
(* doubles.  A number x is held as the integer x * 2^53 written in base    *)
(* 2^20, least digit first, five digits: every number of the layout is 0,  *)
(* or at least 0.6 and below 2^10, so that it is such an integer and its    *)
(* spacing (one unit in the last place of the 53-bit significand) is a     *)
(* power of two that divides the least digit.                              *)

Base == 2^20

NumberDigits == 5

\* The digits of a sequence of digit sums, the carries taken over.
Carry(d) ==
  LET d2 == d[2] + (d[1] \div Base)
      d3 == d[3] + (d2 \div Base)
      d4 == d[4] + (d3 \div Base)
      d5 == d[5] + (d4 \div Base)
  IN  <<d[1] % Base, d2 % Base, d3 % Base, d4 % Base, d5>>

\* The integer n as a number: n * 2^53 = (n * 2^13) * Base^2.
FromInteger(n) == Carry(<<0, 0, n * (2^13), 0, 0>>)

\* n * x and x + y as the reals they are, before any rounding.
Scale(n, x) == Carry([i \in 1..NumberDigits |-> n * x[i]])

Sum(x, y) == Carry([i \in 1..NumberDigits |-> x[i] + y[i]])

\* x < y
Less(x, y) ==
  \E i \in 1..NumberDigits :
    /\ x[i] < y[i]
    /\ \A j \in (i + 1)..NumberDigits : x[j] = y[j]

\* The number of binary digits of a digit n < Base.
BitLength(n) == CHOOSE k \in 0..20 : n < 2^k /\ (k = 0 \/ n >= 2^(k - 1))

\* The spacing of the doubles around x, in units of 2^-53: 2^(L - 53) for
\* an x of L > 53 binary digits.
Spacing(x) ==
  LET L == IF x[4] > 0 THEN 60 + BitLength(x[4])
           ELSE 40 + BitLength(x[3])
  IN  IF L > 53 THEN 2^(L - 53) ELSE 1

\* The double nearest to the real x, ties to the even significand.
RoundTo(x, g) ==
  LET r  == x[1] % g
      up == \/ 2 * r > g
            \/ 2 * r = g /\ (x[1] \div g) % 2 = 1
  IN  Carry([x EXCEPT ![1] = x[1] - r + (IF up THEN g ELSE 0)])

RoundToDouble(x) == RoundTo(x, Spacing(x))

\* n * x for an integer n, and x + y, of JavaScript.
Times(n, x) == RoundToDouble(Scale(n, x))

Plus(x, y) == RoundToDouble(Sum(x, y))

\* x / 2, which is exact.
Half(x) ==
  [i \in 1..NumberDigits |->
     (x[i] \div 2)
       + (IF i < NumberDigits THEN (x[i + 1] % 2) * (Base \div 2) ELSE 0)]

\* Math.max(x, y)
MathMax(x, y) == IF Less(x, y) THEN y ELSE x

\* The literal 0.6: the double 5404319552844595 * 2^-53.
PointSix == <<209715, 209715, 4915, 0, 0>>

----------------------------------------------------------------------------
(* generateBadgeSVG *)

\* calculateTextWidth with avgCharWidth = fontSize, the factor 0.6 left
\* out: what C11 rules out.
calculateTextWidthOfFontSize(text) ==
  Times(Len(text), FromInteger(DEFAULT_CONFIG.fontSize))

\* calculateTextWidth(text): text.length * avgCharWidth, where
\* avgCharWidth = fontSize * 0.6
calculateTextWidth(text) ==
  Times(Len(text), Times(DEFAULT_CONFIG.fontSize, PointSix))

GlyphMarkup ==
  "<g transform=\"translate(8, 4)\">"
  \o "\n      <circle cx=\"6\" cy=\"6\" r=\"6\" fill=\"#f7931a\"/>"
  \o "\n      <path d=\"M8.5 4.5c.1-.8-.5-1.2-1.3-1.5l.3-1.1-.7-"
  \o ".2-.3 1.1c-.2 0-.3-.1-.5-.1l.3-1.1-.7-.2-.3 1.1c-.1 0-.3"
  \o "-.1-.4-.1l-.9-.2-.2.7s.5.1.5.1c.3.1.3.2.3.4l-.3 1.3c0 0 "
  \o "0 0 .1 0l-.1 0-.7 1.7c-.1.1-.2.3-.5.2 0 0-.5-.1-.5-.1l-."
  \o "3.8.9.2.5.1-.3 1.1.7.2.3-1.1c.2 0 .4.1.5.1l-.3 1.1.7.2.3"
  \o "-1.1c1.1.2 2-.1 2.3-.9.3-.8 0-1.3-.6-1.6.4-.1.8-.4.8-1zm"
  \o "-1.5 2.1c-.2.8-1.6.4-2 .3l.4-1.5c.4.1 1.9.3 1.6 1.2zm.2-"
  \o "2.2c-.2.7-1.3.4-1.7.3l.3-1.3c.4.1 1.6.3 1.4 1z\" fill=\"wh"
  \o "ite\"/>"
  \o "\n    </g>"

\* Where the glyph is drawn: translate(8, 4) moves the circle of centre
\* cx = 6 and radius r = 6, so it spans x = 8 + 6 - 6 to 8 + 6 + 6.
GlyphExtent == [from |-> 8 + 6 - 6, to |-> 8 + 6 + 6]

\* What a template literal prints for the properties that every object
\* literal inherits from Object.prototype.
ObjectPrototype ==
  << [name |-> <<"c", "o", "n", "s", "t", "r", "u", "c", "t", "o", "r">>,
      text |-> "function Object() { [native code] }"],
     [name |-> <<"t", "o", "S", "t", "r", "i", "n", "g">>,
      text |-> "function toString() { [native code] }"],
     [name |-> <<"t", "o", "L", "o", "c", "a", "l", "e", "S", "t", "r",
                 "i", "n", "g">>,
      text |-> "function toLocaleString() { [native code] }"],
     [name |-> <<"v", "a", "l", "u", "e", "O", "f">>,
      text |-> "function valueOf() { [native code] }"],
     [name |-> <<"h", "a", "s", "O", "w", "n", "P", "r", "o", "p", "e",
                 "r", "t", "y">>,
      text |-> "function hasOwnProperty() { [native code] }"],
     [name |-> <<"i", "s", "P", "r", "o", "t", "o", "t", "y", "p", "e",
                 "O", "f">>,
      text |-> "function isPrototypeOf() { [native code] }"],
     [name |-> <<"p", "r", "o", "p", "e", "r", "t", "y", "I", "s", "E",
                 "n", "u", "m", "e", "r", "a", "b", "l", "e">>,
      text |-> "function propertyIsEnumerable() { [native code] }"],
     [name |-> <<"_", "_", "d", "e", "f", "i", "n", "e", "G", "e", "t",
                 "t", "e", "r", "_", "_">>,
      text |-> "function __defineGetter__() { [native code] }"],
     [name |-> <<"_", "_", "d", "e", "f", "i", "n", "e", "S", "e", "t",
                 "t", "e", "r", "_", "_">>,
      text |-> "function __defineSetter__() { [native code] }"],
     [name |-> <<"_", "_", "l", "o", "o", "k", "u", "p", "G", "e", "t",
                 "t", "e", "r", "_", "_">>,
      text |-> "function __lookupGetter__() { [native code] }"],
     [name |-> <<"_", "_", "l", "o", "o", "k", "u", "p", "S", "e", "t",
                 "t", "e", "r", "_", "_">>,
      text |-> "function __lookupSetter__() { [native code] }"],
     [name |-> <<"_", "_", "p", "r", "o", "t", "o", "_", "_">>,
      text |-> "[object Object]"] >>

\* generateCryptoIcon(iconType): icons[iconType] || '' as the template
\* literal of generateBadgeSVG prints it.  icons has the own keys crypto
\* and bitcoin, with the same markup.
generateCryptoIcon(iconType) ==
  IF iconType \in {<<"c", "r", "y", "p", "t", "o">>,
                   <<"b", "i", "t", "c", "o", "i", "n">>}
  THEN GlyphMarkup
  ELSE IF \E i \in 1..Len(ObjectPrototype) : ObjectPrototype[i].name = iconType
  THEN ObjectPrototype[CHOOSE i \in 1..Len(ObjectPrototype) :
                         ObjectPrototype[i].name = iconType].text
  ELSE ""

NoSvg == [width |-> FromInteger(0)]

\* An allowance made only for an icon that has a glyph.
IconWidthOfGlyph(params) ==
  FromInteger(IF Truthy(params.icon) /\ generateCryptoIcon(params.icon.s) # ""
              THEN 16 ELSE 0)

\* const iconWidth = params.icon ? 16 : 0; and const padding = 12;
IconWidth(params) == FromInteger(IF Truthy(params.icon) THEN 16 ELSE 0)

Padding == FromInteger(12)

\* Math.max(leftTextWidth + padding, 55)
LeftWidth(params) ==
  MathMax(Plus(calculateTextWidth(params.leftText.s), Padding),
          FromInteger(55))

\* rightWidth had iconWidth been left out of the sum: what C12 rules out.
RightWidthWithoutIcon(params) ==
  MathMax(Plus(calculateTextWidth(params.rightText.s), Padding),
          FromInteger(55))

\* Math.max(rightTextWidth + padding + iconWidth, 55)
RightWidth(params) ==
  MathMax(Plus(Plus(calculateTextWidth(params.rightText.s), Padding),
               IconWidth(params)),
          FromInteger(55))

\* const iconSvg = params.icon ? generateCryptoIcon(params.icon) : '';
IconSvg(params) ==
  IF Truthy(params.icon) THEN generateCryptoIcon(params.icon.s) ELSE ""

\* The template literal: the values it inserts, for the two widths.  The
\* text of a number in the SVG is that of Number::toString.
Template(params, leftWidth, rightWidth, label) ==
  [width      |-> Plus(leftWidth, rightWidth),
   height     |-> DEFAULT_CONFIG.height,
   ariaLabel  |-> label,
   title      |-> label,
   clipWidth  |-> Plus(leftWidth, rightWidth),
   leftWidth  |-> leftWidth,
   leftFill   |-> params.leftColor.s,
   rightX     |-> leftWidth,
   rightWidth |-> rightWidth,
   rightFill  |-> params.rightColor.s,
   fontFamily |-> DEFAULT_CONFIG.fontFamily,
   fontSize   |-> DEFAULT_CONFIG.fontSize,
   texts      |-> << [x |-> Half(leftWidth), y |-> 14,
                      text |-> params.leftText.s],
                     [x |-> Half(leftWidth), y |-> 14 - 1,
                      text |-> params.leftText.s],
                     [x |-> Plus(leftWidth, Half(rightWidth)), y |-> 14,
                      text |-> params.rightText.s],
                     [x |-> Plus(leftWidth, Half(rightWidth)), y |-> 14 - 1,
                      text |-> params.rightText.s] >>,
   iconSvg    |-> IconSvg(params)]

\* The SVG of validated params.
RenderSvg(params) ==
  Template(params, LeftWidth(params), RightWidth(params),
           params.leftText.s \o <<":", " ">> \o params.rightText.s)

\* generateBadgeSVG throwing a message of its own for the one validation
\* gave: what C5 rules out.
GeneratedWithOwnMessage(validation) ==
  IF ~validation.isValid
  THEN [threw |-> TRUE, error |-> "Invalid badge parameters", svg |-> NoSvg]
  ELSE [threw |-> FALSE, error |-> NoError,
        svg |-> RenderSvg(validation.params.m)]

\* The rest of generateBadgeSVG once validation is known.
Generated(validation) ==
  IF ~validation.isValid
  THEN [threw |-> TRUE, error |-> validation.error, svg |-> NoSvg]
  ELSE [threw |-> FALSE, error |-> NoError,
        svg |-> RenderSvg(validation.params.m)]

\* The alias applied only where rightText is not given, options.rightText =
\* options.rightText || options.text: what C16 rules out.
WithLegacyTextUnlessRightText(options) ==
  IF Truthy(options.text)
  THEN [options EXCEPT !.rightText = Or(options.rightText, options.text)]
  ELSE options

\* if (options.text) { options.rightText = options.text; }
WithLegacyText(options) ==
  IF Truthy(options.text)
  THEN [options EXCEPT !.rightText = options.text]
  ELSE options

\* The result of a call: the outcome (threw says whether it threw, error
\* is the message thrown, svg the SVG returned) and options, the reference
\* that was passed as it is after the call.
Outcome(outcome, options) ==
  [threw   |-> outcome.threw,
   error   |-> outcome.error,
   svg     |-> outcome.svg,
   options |-> options]

\* generateBadgeSVG(options).  With no argument options is a new {}.
generateBadgeSVG(ref) ==
  IF ref.k = "null"
  THEN [threw   |-> TRUE,
        error   |-> NullReadError("text"),
        svg     |-> NoSvg,
        options |-> ref]
  ELSE Outcome(Generated(validateBadgeParams(Object(WithLegacyText(ref.m)))),
               IF ref.k = "undefined" THEN ref
               ELSE Object(WithLegacyText(ref.m)))

\* enhancedOptions with the colour forced as the style is, rightColor:
\* '#f7931a': what C9 rules out.
EnhancedOptionsForcedColor(options) ==
  [options EXCEPT
     !.style      = Str(<<"e", "n", "h", "a", "n", "c", "e", "d">>),
     !.icon       = Or(options.icon, Str(<<"c", "r", "y", "p", "t", "o">>)),
     !.rightColor = Str(<<"#", "f", "7", "9", "3", "1", "a">>)]

\* const enhancedOptions = {...}
EnhancedOptions(options) ==
  [options EXCEPT
     !.style      = Str(<<"e", "n", "h", "a", "n", "c", "e", "d">>),
     !.icon       = Or(options.icon, Str(<<"c", "r", "y", "p", "t", "o">>)),
     !.rightColor = Or(options.rightColor,
                       Str(<<"#", "f", "7", "9", "3", "1", "a">>))]

\* generateEnhancedBadge(options); the object built by the spread is a new
\* one, so the object passed is left as it is.
generateEnhancedBadge(ref) ==
  IF ref.k = "null"
  THEN [threw   |-> TRUE,
        error   |-> NullReadError("icon"),
        svg     |-> NoSvg,
        options |-> ref]
  ELSE Outcome(generateBadgeSVG(Object(EnhancedOptions(ref.m))), ref)

----------------------------------------------------------------------------
(* The badge routes of createApp.  query is the object c.req.query()     *)
(* returns: every value it has is a string.  These are the handlers; the  *)
(* answer of the app to a request is what the etag middleware below       *)
(* makes of the handler's response.                                       *)

\* A route that answers a rejected query as it answers a generator that
\* threw.
BadRequestAsServerError(error) ==
  [status      |-> 500,
   contentType |-> "application/json",
   json        |-> [error |-> "Internal server error",
                    message |-> "Invalid badge parameters"],
   body        |-> NoSvg]

BadRequest(error) ==
  [status      |-> 400,
   contentType |-> "application/json",
   json        |-> [error |-> error, message |-> "Invalid badge parameters"],
   body        |-> NoSvg]

ServerError(message) ==
  [status      |-> 500,
   contentType |-> "application/json",
   json        |-> [error |-> "Internal server error", message |-> message],
   body        |-> NoSvg]

SvgResponse(svgContent) ==
  [status      |-> 200,
   contentType |-> "image/svg+xml",
   json        |-> [error |-> NoError, message |-> NoError],
   body        |-> svgContent]

\* The response to what the generator did: the catch of the route answers
\* 500 when it threw.
Generation(outcome, failure) ==
  IF outcome.threw THEN ServerError(failure) ELSE SvgResponse(outcome.svg)

\* The handler without the return of the 400 answer: the generator is
\* called with the params of a rejected query as well.
BadgeResponseWithoutReturn(validation) ==
  Generation(generateBadgeSVG(validation.params), "Failed to generate badge")

\* The handler of GET /badge.svg from validation on.
BadgeResponse(validation) ==
  IF ~validation.isValid
  THEN BadRequest(validation.error)
  ELSE Generation(generateBadgeSVG(validation.params),
                  "Failed to generate badge")

\* GET /badge.svg
GetBadgeSvg(query) == BadgeResponse(validateBadgeParams(Object(query)))

\* The handler of GET /badge-crypto.svg from validation on.
BadgeCryptoResponse(validation) ==
  IF ~validation.isValid
  THEN BadRequest(validation.error)
  ELSE Generation(generateEnhancedBadge(validation.params),
                  "Failed to generate enhanced badge")

\* GET /badge-crypto.svg
GetBadgeCryptoSvg(query) ==
  BadgeCryptoResponse(validateBadgeParams(Object(
    [query EXCEPT !.style = Str(<<"e", "n", "h", "a", "n", "c", "e", "d">>)])))

----------------------------------------------------------------------------
(* app.use('*', etag()): the middleware of hono/etag around every route.   *)
(* Its code is hono's and is not in the repository; it is modelled by      *)
(* what createApp asks of it and the tests of the server expect: it puts   *)
(* a digest of the response into the ETag header, and answers 304 with no  *)
(* body when the If-None-Match header of the request is that ETag.  The    *)
(* digest is held as the content it is taken of: two digests are equal     *)
(* exactly when the contents are.  No property below rests on it.          *)

\* A request without If-None-Match.
NoHeader == [absent |-> TRUE]

\* An ETag the server never gave.
StaleTag == [digest |-> [json |-> [error |-> "stale", message |-> "stale"],
                         body |-> NoSvg]]

\* The ETag of a response.
Tag(response) == [digest |-> [json |-> response.json, body |-> response.body]]

\* The response the middleware leaves, tag being the ETag of response.
Conditional(response, tag, header) ==
  IF header = tag
  THEN [status      |-> 304,
        contentType |-> "null",
        json        |-> [error |-> NoError, message |-> NoError],
        body        |-> NoSvg,
        etag        |-> tag]
  ELSE [status      |-> response.status,
        contentType |-> response.contentType,
        json        |-> response.json,
        body        |-> response.body,
        etag        |-> tag]

etag(response, header) == Conditional(response, Tag(response), header)

----------------------------------------------------------------------------
(* code-generator.js: the Markdown and HTML a page embeds a badge with.    *)
(* The code is a string, held as the sequence of its code units.           *)

\* s.replace(/c/g, t) for a character c: every c of s becomes t.
RECURSIVE ReplaceCharacter(_, _, _)
ReplaceCharacter(s, c, t) ==
  LET i == FirstOf({j \in 1..Len(s) : s[j] = c})
  IN  IF i = 0 THEN s
      ELSE SubSeq(s, 1, i - 1) \o t
             \o ReplaceCharacter(SubSeq(s, i + 1, Len(s)), c, t)

\* escapeHtml without the replacement of the two quotes.
escapeHtmlWithoutQuotes(text) ==
  IF text.t # "string" THEN <<>>
  ELSE ReplaceCharacter(
         ReplaceCharacter(
           ReplaceCharacter(text.s, "&", <<"&", "a", "m", "p", ";">>),
           "<", <<"&", "l", "t", ";">>),
         ">", <<"&", "g", "t", ";">>)

\* escapeHtml(text): '' when text is not a string, else the five replace
\* calls in their order.
escapeHtml(text) ==
  IF text.t # "string" THEN <<>>
  ELSE ReplaceCharacter(
         ReplaceCharacter(
           ReplaceCharacter(
             ReplaceCharacter(
               ReplaceCharacter(text.s, "&", <<"&", "a", "m", "p", ";">>),
               "<", <<"&", "l", "t", ";">>),
             ">", <<"&", "g", "t", ";">>),
           "\"", <<"&", "q", "u", "o", "t", ";">>),
         "'", <<"&", "#", "3", "9", ";">>)

\* The decimal digits of a natural number.
RECURSIVE Decimal(_)
Decimal(n) ==
  IF n < 10 THEN <<Ascii[17 + n]>>
  ELSE Decimal(n \div 10) \o <<Ascii[17 + (n % 10)]>>

\* What a template literal, or String(v), makes of a value that is a
\* string, undefined, null or a natural number.
TemplateText(v) ==
  CASE v.t = "string"    -> v.s
    [] v.t = "undefined" -> <<"u", "n", "d", "e", "f", "i", "n", "e",
                                "d">>
    [] v.t = "null"      -> <<"n", "u", "l", "l">>
    [] v.t = "number"    -> Decimal(v.n)

\* The number of a code unit: the inverse of Chr, read from the four
\* hexadecimal digits of a code unit that is not printable ASCII.
Code(c) ==
  IF Len(c) = 1 THEN (CHOOSE i \in 1..Len(Ascii) : Ascii[i] = c) + 31
  ELSE HexVal[SubSeq(c, 3, 3)] * 4096 + HexVal[SubSeq(c, 4, 4)] * 256
         + HexVal[SubSeq(c, 5, 5)] * 16 + HexVal[SubSeq(c, 6, 6)]

\* %XX for a byte.
PercentByte(b) == <<"%", HexUpper[(b \div 16) + 1], HexUpper[(b % 16) + 1]>>

\* The UTF-8 bytes of a code point, each as %XX.
PercentEncode(point) ==
  IF point < 128 THEN PercentByte(point)
  ELSE IF point < 2048
  THEN PercentByte(192 + (point \div 64)) \o PercentByte(128 + (point % 64))
  ELSE IF point < 65536
  THEN PercentByte(224 + (point \div 4096))
         \o PercentByte(128 + ((point \div 64) % 64))
         \o PercentByte(128 + (point % 64))
  ELSE PercentByte(240 + (point \div 262144))
         \o PercentByte(128 + ((point \div 4096) % 64))
         \o PercentByte(128 + ((point \div 64) % 64))
         \o PercentByte(128 + (point % 64))

\* The code point that starts at position i of s and the code units it
\* takes: a surrogate without its pair is U+FFFD.
PointAt(s, i) ==
  LET c == Code(s[i])
  IN  IF c \in 55296..56319 /\ i < Len(s) /\ Code(s[i + 1]) \in 56320..57343
      THEN [point |-> 65536 + (c - 55296) * 1024 + (Code(s[i + 1]) - 56320),
            units |-> 2]
      ELSE IF c \in 55296..57343 THEN [point |-> 65533, units |-> 1]
      ELSE [point |-> c, units |-> 1]

\* s from position i on with the code points that are not in the set keep
\* percent-encoded, and a space written as the sequence space.
RECURSIVE EncodeFrom(_, _, _, _)
EncodeFrom(s, i, keep, space) ==
  IF i > Len(s) THEN <<>>
  ELSE LET p == PointAt(s, i)
       IN  (IF s[i] = " " THEN space
            ELSE IF s[i] \in keep THEN <<s[i]>>
            ELSE PercentEncode(p.point))
             \o EncodeFrom(s, i + p.units, keep, space)

\* What the application/x-www-form-urlencoded serializer leaves as it is.
FormSafe == UpperLetters \cup LowerLetters \cup Digits \cup {"*", "-", ".", "_"}

\* A name or a value as URLSearchParams.prototype.toString writes it.
FormEncode(s) == EncodeFrom(s, 1, FormSafe, <<"+">>)

\* The entries of queryParams that buildQueryString appends.
Appended(entries) ==
  SelectSeq(entries,
            LAMBDA e : e.value.t \notin {"null", "undefined"}
                         /\ e.value # Str(<<>>))

\* searchParams.toString() for the entries from the i-th on.
RECURSIVE Serialize(_, _)
Serialize(entries, i) ==
  IF i > Len(entries) THEN <<>>
  ELSE (IF i = 1 THEN <<>> ELSE <<"&">>)
         \o FormEncode(entries[i].key) \o <<"=">>
         \o FormEncode(TemplateText(entries[i].value))
         \o Serialize(entries, i + 1)

\* buildQueryString(params), params as its entries in insertion order.
buildQueryString(entries) ==
  LET queryString == Serialize(Appended(entries), 1)
  IN  IF queryString = <<>> THEN <<>> ELSE <<"?">> \o queryString

\* The value of the property style of an object given as its entries.
StyleOf(entries) ==
  LET at == {i \in 1..Len(entries) :
               entries[i].key = <<"s", "t", "y", "l", "e">>}
  IN  IF at = {} THEN Undefined ELSE entries[CHOOSE i \in at : TRUE].value

\* buildBadgeUrl(baseUrl, badgeParams), badgeParams as its entries.
buildBadgeUrl(baseUrl, entries) ==
  LET isEnhanced  == StyleOf(entries)
                       = Str(<<"e", "n", "h", "a", "n", "c", "e", "d">>)
      endpoint    == IF isEnhanced
                     THEN <<"/", "b", "a", "d", "g", "e", "-", "c", "r",
                            "y", "p", "t", "o", ".", "s", "v", "g">>
                     ELSE <<"/", "b", "a", "d", "g", "e", ".", "s", "v",
                            "g">>
      queryParams == SelectSeq(entries,
                               LAMBDA e :
                                 e.key # <<"s", "t", "y", "l", "e">>)
  IN  TemplateText(baseUrl) \o endpoint \o buildQueryString(queryParams)

\* s starts with lit: String.prototype.startsWith.
StartsWith(s, lit) == Len(s) >= Len(lit) /\ SubSeq(s, 1, Len(lit)) = lit

\* const badgeUrl = badgePath.startsWith('http') ? badgePath : ...
BadgeUrlOf(baseUrl, badgePath) ==
  IF StartsWith(badgePath.s, <<"h", "t", "t", "p">>) THEN badgePath.s
  ELSE TemplateText(baseUrl) \o badgePath.s

\* badgePath.startsWith of a badgePath that is not a string.
StartsWithError(badgePath) ==
  IF badgePath.t \in {"undefined", "null"}
  THEN "Cannot read properties of " \o badgePath.t
         \o " (reading 'startsWith')"
  ELSE "badgePath.startsWith is not a function"

NoCode == <<>>

\* generateMarkdownBadge(baseUrl, badgePath, linkUrl, altText)
generateMarkdownBadge(baseUrl, badgePath, linkUrl, altText) ==
  IF badgePath.t # "string"
  THEN [threw |-> TRUE, error |-> StartsWithError(badgePath), code |-> NoCode]
  ELSE [threw |-> FALSE,
        error |-> NoError,
        code  |-> <<"[", "!", "[">> \o TemplateText(altText) \o <<"]", "(">>
                    \o BadgeUrlOf(baseUrl, badgePath) \o <<")", "]", "(">>
                    \o TemplateText(linkUrl) \o <<")">>]

\* The template literal of generateHTMLBadge around its three values.
HtmlTemplate(linkUrl, badgeUrl, escapedAltText) ==
  <<"<", "a", " ", "h", "r", "e", "f", "=", "\"">> \o linkUrl
    \o <<"\"", " ", "t", "a", "r", "g", "e", "t", "=", "\"", "_", "b",
           "l", "a", "n", "k", "\"", " ", "r", "e", "l", "=", "\"", "n",
           "o", "o", "p", "e", "n", "e", "r", " ", "n", "o", "r", "e", "f",
           "e", "r", "r", "e", "r", "\"", ">", "\\u000a", " ", " ", "<",
           "i", "m", "g", " ", "s", "r", "c", "=", "\"">>
    \o badgeUrl
    \o <<"\"", " ", "a", "l", "t", "=", "\"">> \o escapedAltText
    \o <<"\"", " ", "/", ">", "\\u000a", "<", "/", "a", ">">>

\* generateHTMLBadge(baseUrl, badgePath, linkUrl, altText)
generateHTMLBadge(baseUrl, badgePath, linkUrl, altText) ==
  IF badgePath.t # "string"
  THEN [threw |-> TRUE, error |-> StartsWithError(badgePath), code |-> NoCode]
  ELSE [threw |-> FALSE,
        error |-> NoError,
        code  |-> HtmlTemplate(TemplateText(linkUrl),
                               BadgeUrlOf(baseUrl, badgePath),
                               escapeHtml(altText))]

(* new URL(badgeUrl), for an absolute URL of scheme http or https with a   *)
(* host of ASCII and no credentials, whose path has no dot segment and no  *)
(* backslash: the URLs the base URLs of the inputs give.  Anything else    *)
(* the inputs give has no scheme, and new URL throws for it.               *)

\* The first position from i on of s that holds a character of C, and
\* Len(s) + 1 when there is none.
IndexFrom(s, i, C) ==
  LET at == FirstOf({j \in i..Len(s) : s[j] \in C})
  IN  IF at = 0 THEN Len(s) + 1 ELSE at

\* What the host of a URL cannot hold: the forbidden host code points that
\* are printable, the colon of a port aside.
ForbiddenInHost == {" ", "#", "<", ">", "@", "[", "\\", "]", "^", "|", "%"}

\* What is kept of a path and of the query of a URL: the printable ASCII
\* that is not in the path and the special-query percent-encode set.
PathSafe ==
  {Ascii[i] : i \in 1..Len(Ascii)}
    \ {" ", "\"", "#", "<", ">", "?", "\\u0060", "{", "}"}

QuerySafe == {Ascii[i] : i \in 1..Len(Ascii)} \ {" ", "\"", "#", "<", ">", "'"}

\* Where the host of s starts: after http:// or https://, 0 with neither.
HostStart(s) ==
  IF StartsWith(s, <<"h", "t", "t", "p", "s", ":", "/", "/">>) THEN 9
  ELSE IF StartsWith(s, <<"h", "t", "t", "p", ":", "/", "/">>) THEN 8
  ELSE 0

\* new URL(s): ok is FALSE when it throws; pathname and search otherwise.
ParseUrl(s) ==
  LET host  == HostStart(s)
      path  == IndexFrom(s, host, {"/", "?", "#"})
      query == IndexFrom(s, path, {"?", "#"})
      hash  == IndexFrom(s, path, {"#"})
      raw   == SubSeq(s, query + 1, hash - 1)
  IN  IF \/ host = 0
         \/ path = host
         \/ \E i \in host..(path - 1) : s[i] \in ForbiddenInHost
      THEN [ok |-> FALSE, pathname |-> <<>>, search |-> <<>>]
      ELSE [ok       |-> TRUE,
            pathname |-> IF query = path THEN <<"/">>
                         ELSE EncodeFrom(SubSeq(s, path, query - 1), 1,
                                         PathSafe, <<"%", "2", "0">>),
            search   |-> IF raw = <<>> THEN <<>>
                         ELSE <<"?">> \o EncodeFrom(raw, 1, QuerySafe,
                                                    <<"%", "2", "0">>)]

\* The code points String.prototype.toLowerCase maps to one other code
\* point, as runs <<first, last, step, delta>>: every step-th code point
\* from first to last maps to itself plus delta.  The tables are those of
\* Unicode 17.0.
LowerCaseRuns ==
  <<<<65, 90, 1, 32>>, <<192, 214, 1, 32>>, <<216, 222, 1, 32>>,
    <<256, 302, 2, 1>>, <<306, 310, 2, 1>>, <<313, 327, 2, 1>>,
    <<330, 374, 2, 1>>, <<376, 376, 1, -121>>, <<377, 381, 2, 1>>,
    <<385, 385, 1, 210>>, <<386, 388, 2, 1>>, <<390, 390, 1, 206>>,
    <<391, 391, 1, 1>>, <<393, 394, 1, 205>>, <<395, 395, 1, 1>>,
    <<398, 398, 1, 79>>, <<399, 399, 1, 202>>, <<400, 400, 1, 203>>,
    <<401, 401, 1, 1>>, <<403, 403, 1, 205>>, <<404, 404, 1, 207>>,
    <<406, 406, 1, 211>>, <<407, 407, 1, 209>>, <<408, 408, 1, 1>>,
    <<412, 412, 1, 211>>, <<413, 413, 1, 213>>, <<415, 415, 1, 214>>,
    <<416, 420, 2, 1>>, <<422, 422, 1, 218>>, <<423, 423, 1, 1>>,
    <<425, 425, 1, 218>>, <<428, 428, 1, 1>>, <<430, 430, 1, 218>>,
    <<431, 431, 1, 1>>, <<433, 434, 1, 217>>, <<435, 437, 2, 1>>,
    <<439, 439, 1, 219>>, <<440, 440, 1, 1>>, <<444, 444, 1, 1>>,
    <<452, 452, 1, 2>>, <<453, 453, 1, 1>>, <<455, 455, 1, 2>>,
    <<456, 456, 1, 1>>, <<458, 458, 1, 2>>, <<459, 475, 2, 1>>,
    <<478, 494, 2, 1>>, <<497, 497, 1, 2>>, <<498, 500, 2, 1>>,
    <<502, 502, 1, -97>>, <<503, 503, 1, -56>>, <<504, 542, 2, 1>>,
    <<544, 544, 1, -130>>, <<546, 562, 2, 1>>, <<570, 570, 1, 10795>>,
    <<571, 571, 1, 1>>, <<573, 573, 1, -163>>, <<574, 574, 1, 10792>>,
    <<577, 577, 1, 1>>, <<579, 579, 1, -195>>, <<580, 580, 1, 69>>,
    <<581, 581, 1, 71>>, <<582, 590, 2, 1>>, <<880, 882, 2, 1>>,
    <<886, 886, 1, 1>>, <<895, 895, 1, 116>>, <<902, 902, 1, 38>>,
    <<904, 906, 1, 37>>, <<908, 908, 1, 64>>, <<910, 911, 1, 63>>,
    <<913, 929, 1, 32>>, <<931, 939, 1, 32>>, <<975, 975, 1, 8>>,
    <<984, 1006, 2, 1>>, <<1012, 1012, 1, -60>>, <<1015, 1015, 1, 1>>,
    <<1017, 1017, 1, -7>>, <<1018, 1018, 1, 1>>, <<1021, 1023, 1, -130>>,
    <<1024, 1039, 1, 80>>, <<1040, 1071, 1, 32>>, <<1120, 1152, 2, 1>>,
    <<1162, 1214, 2, 1>>, <<1216, 1216, 1, 15>>, <<1217, 1229, 2, 1>>,
    <<1232, 1326, 2, 1>>, <<1329, 1366, 1, 48>>, <<4256, 4293, 1, 7264>>,
    <<4295, 4295, 1, 7264>>, <<4301, 4301, 1, 7264>>, <<5024, 5103, 1, 38864>>,
    <<5104, 5109, 1, 8>>, <<7305, 7305, 1, 1>>, <<7312, 7354, 1, -3008>>,
    <<7357, 7359, 1, -3008>>, <<7680, 7828, 2, 1>>, <<7838, 7838, 1, -7615>>,
    <<7840, 7934, 2, 1>>, <<7944, 7951, 1, -8>>, <<7960, 7965, 1, -8>>,
    <<7976, 7983, 1, -8>>, <<7992, 7999, 1, -8>>, <<8008, 8013, 1, -8>>,
    <<8025, 8031, 2, -8>>, <<8040, 8047, 1, -8>>, <<8072, 8079, 1, -8>>,
    <<8088, 8095, 1, -8>>, <<8104, 8111, 1, -8>>, <<8120, 8121, 1, -8>>,
    <<8122, 8123, 1, -74>>, <<8124, 8124, 1, -9>>, <<8136, 8139, 1, -86>>,
    <<8140, 8140, 1, -9>>, <<8152, 8153, 1, -8>>, <<8154, 8155, 1, -100>>,
    <<8168, 8169, 1, -8>>, <<8170, 8171, 1, -112>>, <<8172, 8172, 1, -7>>,
    <<8184, 8185, 1, -128>>, <<8186, 8187, 1, -126>>, <<8188, 8188, 1, -9>>,
    <<8486, 8486, 1, -7517>>, <<8490, 8490, 1, -8383>>,
    <<8491, 8491, 1, -8262>>, <<8498, 8498, 1, 28>>, <<8544, 8559, 1, 16>>,
    <<8579, 8579, 1, 1>>, <<9398, 9423, 1, 26>>, <<11264, 11311, 1, 48>>,
    <<11360, 11360, 1, 1>>, <<11362, 11362, 1, -10743>>,
    <<11363, 11363, 1, -3814>>, <<11364, 11364, 1, -10727>>,
    <<11367, 11371, 2, 1>>, <<11373, 11373, 1, -10780>>,
    <<11374, 11374, 1, -10749>>, <<11375, 11375, 1, -10783>>,
    <<11376, 11376, 1, -10782>>, <<11378, 11378, 1, 1>>,
    <<11381, 11381, 1, 1>>, <<11390, 11391, 1, -10815>>,
    <<11392, 11490, 2, 1>>, <<11499, 11501, 2, 1>>, <<11506, 11506, 1, 1>>,
    <<42560, 42604, 2, 1>>, <<42624, 42650, 2, 1>>, <<42786, 42798, 2, 1>>,
    <<42802, 42862, 2, 1>>, <<42873, 42875, 2, 1>>,
    <<42877, 42877, 1, -35332>>, <<42878, 42886, 2, 1>>,
    <<42891, 42891, 1, 1>>, <<42893, 42893, 1, -42280>>,
    <<42896, 42898, 2, 1>>, <<42902, 42920, 2, 1>>,
    <<42922, 42922, 1, -42308>>, <<42923, 42923, 1, -42319>>,
    <<42924, 42924, 1, -42315>>, <<42925, 42925, 1, -42305>>,
    <<42926, 42926, 1, -42308>>, <<42928, 42928, 1, -42258>>,
    <<42929, 42929, 1, -42282>>, <<42930, 42930, 1, -42261>>,
    <<42931, 42931, 1, 928>>, <<42932, 42946, 2, 1>>, <<42948, 42948, 1, -48>>,
    <<42949, 42949, 1, -42307>>, <<42950, 42950, 1, -35384>>,
    <<42951, 42953, 2, 1>>, <<42955, 42955, 1, -42343>>,
    <<42956, 42970, 2, 1>>, <<42972, 42972, 1, -42561>>,
    <<42997, 42997, 1, 1>>, <<65313, 65338, 1, 32>>, <<66560, 66599, 1, 40>>,
    <<66736, 66771, 1, 40>>, <<66928, 66938, 1, 39>>, <<66940, 66954, 1, 39>>,
    <<66956, 66962, 1, 39>>, <<66964, 66965, 1, 39>>, <<68736, 68786, 1, 64>>,
    <<68944, 68965, 1, 32>>, <<71840, 71871, 1, 32>>, <<93760, 93791, 1, 32>>,
    <<93856, 93880, 1, 27>>, <<125184, 125217, 1, 34>>>>

\* The code points that are case-ignorable, as runs <<first, last, step>>.
CaseIgnorableRuns ==
  <<<<39, 39, 1>>, <<46, 46, 1>>, <<58, 58, 1>>, <<94, 96, 2>>,
    <<168, 168, 1>>, <<173, 175, 2>>, <<180, 180, 1>>, <<183, 184, 1>>,
    <<688, 879, 1>>, <<884, 885, 1>>, <<890, 890, 1>>, <<900, 901, 1>>,
    <<903, 903, 1>>, <<1155, 1161, 1>>, <<1369, 1369, 1>>, <<1375, 1375, 1>>,
    <<1425, 1469, 1>>, <<1471, 1473, 2>>, <<1474, 1476, 2>>, <<1477, 1479, 2>>,
    <<1524, 1524, 1>>, <<1536, 1541, 1>>, <<1552, 1562, 1>>, <<1564, 1564, 1>>,
    <<1600, 1600, 1>>, <<1611, 1631, 1>>, <<1648, 1648, 1>>, <<1750, 1757, 1>>,
    <<1759, 1768, 1>>, <<1770, 1773, 1>>, <<1807, 1809, 2>>, <<1840, 1866, 1>>,
    <<1958, 1968, 1>>, <<2027, 2037, 1>>, <<2042, 2042, 1>>, <<2045, 2045, 1>>,
    <<2070, 2093, 1>>, <<2137, 2139, 1>>, <<2184, 2184, 1>>, <<2192, 2193, 1>>,
    <<2199, 2207, 1>>, <<2249, 2306, 1>>, <<2362, 2364, 2>>, <<2369, 2376, 1>>,
    <<2381, 2381, 1>>, <<2385, 2391, 1>>, <<2402, 2403, 1>>, <<2417, 2417, 1>>,
    <<2433, 2433, 1>>, <<2492, 2492, 1>>, <<2497, 2500, 1>>, <<2509, 2509, 1>>,
    <<2530, 2531, 1>>, <<2558, 2558, 1>>, <<2561, 2562, 1>>, <<2620, 2620, 1>>,
    <<2625, 2626, 1>>, <<2631, 2632, 1>>, <<2635, 2637, 1>>, <<2641, 2641, 1>>,
    <<2672, 2673, 1>>, <<2677, 2677, 1>>, <<2689, 2690, 1>>, <<2748, 2748, 1>>,
    <<2753, 2757, 1>>, <<2759, 2760, 1>>, <<2765, 2765, 1>>, <<2786, 2787, 1>>,
    <<2810, 2815, 1>>, <<2817, 2817, 1>>, <<2876, 2876, 1>>, <<2879, 2881, 2>>,
    <<2882, 2884, 1>>, <<2893, 2893, 1>>, <<2901, 2902, 1>>, <<2914, 2915, 1>>,
    <<2946, 2946, 1>>, <<3008, 3008, 1>>, <<3021, 3021, 1>>, <<3072, 3072, 1>>,
    <<3076, 3076, 1>>, <<3132, 3134, 2>>, <<3135, 3136, 1>>, <<3142, 3144, 1>>,
    <<3146, 3149, 1>>, <<3157, 3158, 1>>, <<3170, 3171, 1>>, <<3201, 3201, 1>>,
    <<3260, 3260, 1>>, <<3263, 3263, 1>>, <<3270, 3270, 1>>, <<3276, 3277, 1>>,
    <<3298, 3299, 1>>, <<3328, 3329, 1>>, <<3387, 3388, 1>>, <<3393, 3396, 1>>,
    <<3405, 3405, 1>>, <<3426, 3427, 1>>, <<3457, 3457, 1>>, <<3530, 3530, 1>>,
    <<3538, 3540, 1>>, <<3542, 3542, 1>>, <<3633, 3633, 1>>, <<3636, 3642, 1>>,
    <<3654, 3662, 1>>, <<3761, 3761, 1>>, <<3764, 3772, 1>>, <<3782, 3784, 2>>,
    <<3785, 3790, 1>>, <<3864, 3865, 1>>, <<3893, 3897, 2>>, <<3953, 3966, 1>>,
    <<3968, 3972, 1>>, <<3974, 3975, 1>>, <<3981, 3991, 1>>, <<3993, 4028, 1>>,
    <<4038, 4038, 1>>, <<4141, 4144, 1>>, <<4146, 4151, 1>>, <<4153, 4154, 1>>,
    <<4157, 4158, 1>>, <<4184, 4185, 1>>, <<4190, 4192, 1>>, <<4209, 4212, 1>>,
    <<4226, 4226, 1>>, <<4229, 4230, 1>>, <<4237, 4237, 1>>, <<4253, 4253, 1>>,
    <<4348, 4348, 1>>, <<4957, 4959, 1>>, <<5906, 5908, 1>>, <<5938, 5939, 1>>,
    <<5970, 5971, 1>>, <<6002, 6003, 1>>, <<6068, 6069, 1>>, <<6071, 6077, 1>>,
    <<6086, 6086, 1>>, <<6089, 6099, 1>>, <<6103, 6103, 1>>, <<6109, 6109, 1>>,
    <<6155, 6159, 1>>, <<6211, 6211, 1>>, <<6277, 6278, 1>>, <<6313, 6313, 1>>,
    <<6432, 6434, 1>>, <<6439, 6440, 1>>, <<6450, 6450, 1>>, <<6457, 6459, 1>>,
    <<6679, 6680, 1>>, <<6683, 6683, 1>>, <<6742, 6744, 2>>, <<6745, 6750, 1>>,
    <<6752, 6754, 2>>, <<6757, 6764, 1>>, <<6771, 6780, 1>>, <<6783, 6783, 1>>,
    <<6823, 6823, 1>>, <<6832, 6877, 1>>, <<6880, 6891, 1>>, <<6912, 6915, 1>>,
    <<6964, 6966, 2>>, <<6967, 6970, 1>>, <<6972, 6972, 1>>, <<6978, 6978, 1>>,
    <<7019, 7027, 1>>, <<7040, 7041, 1>>, <<7074, 7077, 1>>, <<7080, 7081, 1>>,
    <<7083, 7085, 1>>, <<7142, 7144, 2>>, <<7145, 7145, 1>>, <<7149, 7151, 2>>,
    <<7152, 7153, 1>>, <<7212, 7219, 1>>, <<7222, 7223, 1>>, <<7288, 7293, 1>>,
    <<7376, 7378, 1>>, <<7380, 7392, 1>>, <<7394, 7400, 1>>, <<7405, 7405, 1>>,
    <<7412, 7412, 1>>, <<7416, 7417, 1>>, <<7468, 7530, 1>>, <<7544, 7544, 1>>,
    <<7579, 7679, 1>>, <<8125, 8127, 2>>, <<8128, 8129, 1>>, <<8141, 8143, 1>>,
    <<8157, 8159, 1>>, <<8173, 8175, 1>>, <<8189, 8190, 1>>, <<8203, 8207, 1>>,
    <<8216, 8217, 1>>, <<8228, 8228, 1>>, <<8231, 8231, 1>>, <<8234, 8238, 1>>,
    <<8288, 8292, 1>>, <<8294, 8303, 1>>, <<8305, 8305, 1>>, <<8319, 8319, 1>>,
    <<8336, 8348, 1>>, <<8400, 8432, 1>>, <<11388, 11389, 1>>,
    <<11503, 11505, 1>>, <<11631, 11631, 1>>, <<11647, 11647, 1>>,
    <<11744, 11775, 1>>, <<11823, 11823, 1>>, <<12293, 12293, 1>>,
    <<12330, 12333, 1>>, <<12337, 12341, 1>>, <<12347, 12347, 1>>,
    <<12441, 12446, 1>>, <<12540, 12542, 1>>, <<40981, 40981, 1>>,
    <<42232, 42237, 1>>, <<42508, 42508, 1>>, <<42607, 42610, 1>>,
    <<42612, 42621, 1>>, <<42623, 42623, 1>>, <<42652, 42655, 1>>,
    <<42736, 42737, 1>>, <<42752, 42785, 1>>, <<42864, 42864, 1>>,
    <<42888, 42890, 1>>, <<42993, 42996, 1>>, <<43000, 43001, 1>>,
    <<43010, 43010, 1>>, <<43014, 43014, 1>>, <<43019, 43019, 1>>,
    <<43045, 43046, 1>>, <<43052, 43052, 1>>, <<43204, 43205, 1>>,
    <<43232, 43249, 1>>, <<43263, 43263, 1>>, <<43302, 43309, 1>>,
    <<43335, 43345, 1>>, <<43392, 43394, 1>>, <<43443, 43443, 1>>,
    <<43446, 43449, 1>>, <<43452, 43453, 1>>, <<43471, 43471, 1>>,
    <<43493, 43494, 1>>, <<43561, 43566, 1>>, <<43569, 43570, 1>>,
    <<43573, 43574, 1>>, <<43587, 43587, 1>>, <<43596, 43596, 1>>,
    <<43632, 43632, 1>>, <<43644, 43644, 1>>, <<43696, 43698, 2>>,
    <<43699, 43700, 1>>, <<43703, 43704, 1>>, <<43710, 43711, 1>>,
    <<43713, 43713, 1>>, <<43741, 43741, 1>>, <<43756, 43757, 1>>,
    <<43763, 43764, 1>>, <<43766, 43766, 1>>, <<43867, 43871, 1>>,
    <<43881, 43883, 1>>, <<44005, 44005, 1>>, <<44008, 44008, 1>>,
    <<44013, 44013, 1>>, <<64286, 64286, 1>>, <<64434, 64450, 1>>,
    <<65024, 65039, 1>>, <<65043, 65043, 1>>, <<65056, 65071, 1>>,
    <<65106, 65106, 1>>, <<65109, 65109, 1>>, <<65279, 65279, 1>>,
    <<65287, 65287, 1>>, <<65294, 65294, 1>>, <<65306, 65306, 1>>,
    <<65342, 65344, 2>>, <<65392, 65392, 1>>, <<65438, 65439, 1>>,
    <<65507, 65507, 1>>, <<65529, 65531, 1>>, <<66045, 66045, 1>>,
    <<66272, 66272, 1>>, <<66422, 66426, 1>>, <<67456, 67461, 1>>,
    <<67463, 67504, 1>>, <<67506, 67514, 1>>, <<68097, 68099, 1>>,
    <<68101, 68102, 1>>, <<68108, 68111, 1>>, <<68152, 68154, 1>>,
    <<68159, 68159, 1>>, <<68325, 68326, 1>>, <<68900, 68903, 1>>,
    <<68942, 68942, 1>>, <<68969, 68973, 1>>, <<68975, 68975, 1>>,
    <<69291, 69292, 1>>, <<69317, 69317, 1>>, <<69370, 69375, 1>>,
    <<69446, 69456, 1>>, <<69506, 69509, 1>>, <<69633, 69633, 1>>,
    <<69688, 69702, 1>>, <<69744, 69744, 1>>, <<69747, 69748, 1>>,
    <<69759, 69761, 1>>, <<69811, 69814, 1>>, <<69817, 69818, 1>>,
    <<69821, 69821, 1>>, <<69826, 69826, 1>>, <<69837, 69837, 1>>,
    <<69888, 69890, 1>>, <<69927, 69931, 1>>, <<69933, 69940, 1>>,
    <<70003, 70003, 1>>, <<70016, 70017, 1>>, <<70070, 70078, 1>>,
    <<70089, 70092, 1>>, <<70095, 70095, 1>>, <<70191, 70193, 1>>,
    <<70196, 70198, 2>>, <<70199, 70199, 1>>, <<70206, 70206, 1>>,
    <<70209, 70209, 1>>, <<70367, 70367, 1>>, <<70371, 70378, 1>>,
    <<70400, 70401, 1>>, <<70459, 70460, 1>>, <<70464, 70464, 1>>,
    <<70502, 70508, 1>>, <<70512, 70516, 1>>, <<70587, 70592, 1>>,
    <<70606, 70610, 2>>, <<70625, 70626, 1>>, <<70712, 70719, 1>>,
    <<70722, 70724, 1>>, <<70726, 70726, 1>>, <<70750, 70750, 1>>,
    <<70835, 70840, 1>>, <<70842, 70842, 1>>, <<70847, 70848, 1>>,
    <<70850, 70851, 1>>, <<71090, 71093, 1>>, <<71100, 71101, 1>>,
    <<71103, 71104, 1>>, <<71132, 71133, 1>>, <<71219, 71226, 1>>,
    <<71229, 71231, 2>>, <<71232, 71232, 1>>, <<71339, 71341, 2>>,
    <<71344, 71349, 1>>, <<71351, 71351, 1>>, <<71453, 71455, 2>>,
    <<71458, 71461, 1>>, <<71463, 71467, 1>>, <<71727, 71735, 1>>,
    <<71737, 71738, 1>>, <<71995, 71996, 1>>, <<71998, 71998, 1>>,
    <<72003, 72003, 1>>, <<72148, 72151, 1>>, <<72154, 72155, 1>>,
    <<72160, 72160, 1>>, <<72193, 72202, 1>>, <<72243, 72248, 1>>,
    <<72251, 72254, 1>>, <<72263, 72263, 1>>, <<72273, 72278, 1>>,
    <<72281, 72283, 1>>, <<72330, 72342, 1>>, <<72344, 72345, 1>>,
    <<72544, 72546, 2>>, <<72547, 72548, 1>>, <<72550, 72550, 1>>,
    <<72752, 72758, 1>>, <<72760, 72765, 1>>, <<72767, 72767, 1>>,
    <<72850, 72871, 1>>, <<72874, 72880, 1>>, <<72882, 72883, 1>>,
    <<72885, 72886, 1>>, <<73009, 73014, 1>>, <<73018, 73020, 2>>,
    <<73021, 73023, 2>>, <<73024, 73029, 1>>, <<73031, 73031, 1>>,
    <<73104, 73105, 1>>, <<73109, 73111, 2>>, <<73177, 73177, 1>>,
    <<73459, 73460, 1>>, <<73472, 73473, 1>>, <<73526, 73530, 1>>,
    <<73536, 73538, 2>>, <<73562, 73562, 1>>, <<78896, 78912, 1>>,
    <<78919, 78933, 1>>, <<90398, 90409, 1>>, <<90413, 90415, 1>>,
    <<92912, 92916, 1>>, <<92976, 92982, 1>>, <<92992, 92995, 1>>,
    <<93504, 93506, 1>>, <<93547, 93548, 1>>, <<94031, 94031, 1>>,
    <<94095, 94111, 1>>, <<94176, 94177, 1>>, <<94179, 94180, 1>>,
    <<94194, 94195, 1>>, <<110576, 110579, 1>>, <<110581, 110587, 1>>,
    <<110589, 110590, 1>>, <<113821, 113822, 1>>, <<113824, 113827, 1>>,
    <<118528, 118573, 1>>, <<118576, 118598, 1>>, <<119143, 119145, 1>>,
    <<119155, 119170, 1>>, <<119173, 119179, 1>>, <<119210, 119213, 1>>,
    <<119362, 119364, 1>>, <<121344, 121398, 1>>, <<121403, 121452, 1>>,
    <<121461, 121461, 1>>, <<121476, 121476, 1>>, <<121499, 121503, 1>>,
    <<121505, 121519, 1>>, <<122880, 122886, 1>>, <<122888, 122904, 1>>,
    <<122907, 122913, 1>>, <<122915, 122916, 1>>, <<122918, 122922, 1>>,
    <<122928, 122989, 1>>, <<123023, 123023, 1>>, <<123184, 123197, 1>>,
    <<123566, 123566, 1>>, <<123628, 123631, 1>>, <<124139, 124143, 1>>,
    <<124398, 124399, 1>>, <<124643, 124643, 1>>, <<124646, 124646, 1>>,
    <<124654, 124655, 1>>, <<124661, 124661, 1>>, <<124671, 124671, 1>>,
    <<125136, 125142, 1>>, <<125252, 125259, 1>>, <<127995, 127999, 1>>,
    <<917505, 917505, 1>>, <<917536, 917631, 1>>, <<917760, 917999, 1>>>>

\* The code points that are cased and not case-ignorable, as runs
\* <<first, last, step>>.
CasedRuns ==
  <<<<65, 90, 1>>, <<97, 122, 1>>, <<170, 170, 1>>, <<181, 181, 1>>,
    <<186, 186, 1>>, <<192, 214, 1>>, <<216, 246, 1>>, <<248, 442, 1>>,
    <<444, 447, 1>>, <<452, 659, 1>>, <<662, 687, 1>>, <<880, 883, 1>>,
    <<886, 887, 1>>, <<891, 893, 1>>, <<895, 895, 1>>, <<902, 904, 2>>,
    <<905, 906, 1>>, <<908, 910, 2>>, <<911, 929, 1>>, <<931, 1013, 1>>,
    <<1015, 1153, 1>>, <<1162, 1327, 1>>, <<1329, 1366, 1>>, <<1376, 1416, 1>>,
    <<4256, 4293, 1>>, <<4295, 4295, 1>>, <<4301, 4301, 1>>, <<4304, 4346, 1>>,
    <<4349, 4351, 1>>, <<5024, 5109, 1>>, <<5112, 5117, 1>>, <<7296, 7306, 1>>,
    <<7312, 7354, 1>>, <<7357, 7359, 1>>, <<7424, 7467, 1>>, <<7531, 7543, 1>>,
    <<7545, 7578, 1>>, <<7680, 7957, 1>>, <<7960, 7965, 1>>, <<7968, 8005, 1>>,
    <<8008, 8013, 1>>, <<8016, 8023, 1>>, <<8025, 8031, 2>>, <<8032, 8061, 1>>,
    <<8064, 8116, 1>>, <<8118, 8124, 1>>, <<8126, 8126, 1>>, <<8130, 8132, 1>>,
    <<8134, 8140, 1>>, <<8144, 8147, 1>>, <<8150, 8155, 1>>, <<8160, 8172, 1>>,
    <<8178, 8180, 1>>, <<8182, 8188, 1>>, <<8450, 8450, 1>>, <<8455, 8455, 1>>,
    <<8458, 8467, 1>>, <<8469, 8469, 1>>, <<8473, 8477, 1>>, <<8484, 8490, 2>>,
    <<8491, 8493, 1>>, <<8495, 8500, 1>>, <<8505, 8505, 1>>, <<8508, 8511, 1>>,
    <<8517, 8521, 1>>, <<8526, 8526, 1>>, <<8544, 8575, 1>>, <<8579, 8580, 1>>,
    <<9398, 9449, 1>>, <<11264, 11387, 1>>, <<11390, 11492, 1>>,
    <<11499, 11502, 1>>, <<11506, 11507, 1>>, <<11520, 11557, 1>>,
    <<11559, 11559, 1>>, <<11565, 11565, 1>>, <<42560, 42605, 1>>,
    <<42624, 42651, 1>>, <<42786, 42863, 1>>, <<42865, 42887, 1>>,
    <<42891, 42894, 1>>, <<42896, 42972, 1>>, <<42997, 42998, 1>>,
    <<43002, 43002, 1>>, <<43824, 43866, 1>>, <<43872, 43880, 1>>,
    <<43888, 43967, 1>>, <<64256, 64262, 1>>, <<64275, 64279, 1>>,
    <<65313, 65338, 1>>, <<65345, 65370, 1>>, <<66560, 66639, 1>>,
    <<66736, 66771, 1>>, <<66776, 66811, 1>>, <<66928, 66938, 1>>,
    <<66940, 66954, 1>>, <<66956, 66962, 1>>, <<66964, 66965, 1>>,
    <<66967, 66977, 1>>, <<66979, 66993, 1>>, <<66995, 67001, 1>>,
    <<67003, 67004, 1>>, <<68736, 68786, 1>>, <<68800, 68850, 1>>,
    <<68944, 68965, 1>>, <<68976, 68997, 1>>, <<71840, 71903, 1>>,
    <<93760, 93823, 1>>, <<93856, 93880, 1>>, <<93883, 93907, 1>>,
    <<119808, 119892, 1>>, <<119894, 119964, 1>>, <<119966, 119967, 1>>,
    <<119970, 119970, 1>>, <<119973, 119974, 1>>, <<119977, 119980, 1>>,
    <<119982, 119993, 1>>, <<119995, 119997, 2>>, <<119998, 120003, 1>>,
    <<120005, 120069, 1>>, <<120071, 120074, 1>>, <<120077, 120084, 1>>,
    <<120086, 120092, 1>>, <<120094, 120121, 1>>, <<120123, 120126, 1>>,
    <<120128, 120132, 1>>, <<120134, 120134, 1>>, <<120138, 120144, 1>>,
    <<120146, 120485, 1>>, <<120488, 120512, 1>>, <<120514, 120538, 1>>,
    <<120540, 120570, 1>>, <<120572, 120596, 1>>, <<120598, 120628, 1>>,
    <<120630, 120654, 1>>, <<120656, 120686, 1>>, <<120688, 120712, 1>>,
    <<120714, 120744, 1>>, <<120746, 120770, 1>>, <<120772, 120779, 1>>,
    <<122624, 122633, 1>>, <<122635, 122654, 1>>, <<122661, 122666, 1>>,
    <<125184, 125251, 1>>, <<127280, 127305, 1>>, <<127312, 127337, 1>>,
    <<127344, 127369, 1>>>>

\* The code point is in one of the runs.
InRuns(point, runs) ==
  \E r \in 1..Len(runs) :
    /\ runs[r][1] <= point
    /\ point <= runs[r][2]
    /\ (point - runs[r][1]) % runs[r][3] = 0

\* The code point a code point other than U+0130 and U+03A3 is lowered to.
LowerPoint(point) ==
  IF InRuns(point, LowerCaseRuns)
  THEN point + LowerCaseRuns[CHOOSE r \in 1..Len(LowerCaseRuns) :
                               /\ LowerCaseRuns[r][1] <= point
                               /\ point <= LowerCaseRuns[r][2]
                               /\ (point - LowerCaseRuns[r][1])
                                    % LowerCaseRuns[r][3] = 0][4]
  ELSE point

\* The code units of a code point.
Units(point) ==
  IF point < 65536 THEN <<Chr(point)>>
  ELSE <<Chr(55296 + ((point - 65536) \div 1024)),
         Chr(56320 + ((point - 65536) % 1024))>>

\* A surrogate pair starts at position i of s, and one ends at position j.
PairAt(s, i) ==
  /\ i < Len(s)
  /\ Code(s[i]) \in 55296..56319
  /\ Code(s[i + 1]) \in 56320..57343

PairTo(s, j) == j > 1 /\ PairAt(s, j - 1)

\* The code point of the pair that starts at position i of s.
PairPoint(s, i) ==
  65536 + (Code(s[i]) - 55296) * 1024 + (Code(s[i + 1]) - 56320)

\* Going back from position j of s over the case-ignorable code points,
\* the first other code point is cased.
RECURSIVE CasedBefore(_, _)
CasedBefore(s, j) ==
  IF j < 1 THEN FALSE
  ELSE IF PairTo(s, j)
  THEN IF InRuns(PairPoint(s, j - 1), CaseIgnorableRuns)
       THEN CasedBefore(s, j - 2)
       ELSE InRuns(PairPoint(s, j - 1), CasedRuns)
  ELSE IF InRuns(Code(s[j]), CaseIgnorableRuns) THEN CasedBefore(s, j - 1)
  ELSE InRuns(Code(s[j]), CasedRuns)

\* Going on from position j of s over the case-ignorable code points, the
\* first other code point is cased.
RECURSIVE CasedAfter(_, _)
CasedAfter(s, j) ==
  IF j > Len(s) THEN FALSE
  ELSE IF PairAt(s, j)
  THEN IF InRuns(PairPoint(s, j), CaseIgnorableRuns)
       THEN CasedAfter(s, j + 2)
       ELSE InRuns(PairPoint(s, j), CasedRuns)
  ELSE IF InRuns(Code(s[j]), CaseIgnorableRuns) THEN CasedAfter(s, j + 1)
  ELSE InRuns(Code(s[j]), CasedRuns)

\* s.toLowerCase() from position i on.  U+0130 is lowered to i and U+0307;
\* U+03A3 to the final sigma U+03C2 when a cased letter comes before it and
\* none after it, and to U+03C3 otherwise.
RECURSIVE LowerFrom(_, _)
LowerFrom(s, i) ==
  IF i > Len(s) THEN <<>>
  ELSE IF s[i] \in LowerLetters \cup Digits THEN <<s[i]>> \o LowerFrom(s, i + 1)
  ELSE IF PairAt(s, i)
  THEN Units(LowerPoint(PairPoint(s, i))) \o LowerFrom(s, i + 2)
  ELSE IF Code(s[i]) = 304 THEN <<"i", Chr(775)>> \o LowerFrom(s, i + 1)
  ELSE IF Code(s[i]) = 931
  THEN <<Chr(IF CasedBefore(s, i - 1) /\ ~CasedAfter(s, i + 1)
             THEN 962 ELSE 963)>> \o LowerFrom(s, i + 1)
  ELSE <<Chr(LowerPoint(Code(s[i])))>> \o LowerFrom(s, i + 1)

\* format.toLowerCase()
ToLowerCase(s) == LowerFrom(s, 1)

\* An object given as nothing, null, or its entries.
NoEntries == [k |-> "object", entries |-> <<>>]

\* What generateBadgeCode returns when it throws.
CodeError(message) ==
  [threw    |-> TRUE,
   error    |-> message,
   format   |-> <<>>,
   code     |-> NoCode,
   badgeUrl |-> <<>>,
   linkUrl  |-> Undefined,
   altText  |-> Undefined]

\* The return statement of generateBadgeCode for what the generator of the
\* format made.
CodeResult(options, format, generated, badgeUrl) ==
  IF generated.threw THEN CodeError(generated.error)
  ELSE [threw    |-> FALSE,
        error    |-> NoError,
        format   |-> ToLowerCase(format),
        code     |-> generated.code,
        badgeUrl |-> badgeUrl,
        linkUrl  |-> options.linkUrl,
        altText  |-> options.altText]

\* generateBadgeCode from the badge URL on.
CodeFor(options, format, badgeUrl) ==
  LET url       == ParseUrl(badgeUrl)
      badgePath == Str(url.pathname \o url.search)
  IN  IF ~url.ok THEN CodeError("Invalid URL")
      ELSE IF ToLowerCase(format) = <<"h", "t", "m", "l">>
      THEN CodeResult(options, format,
                      generateHTMLBadge(options.baseUrl, badgePath,
                                        options.linkUrl, options.altText),
                      badgeUrl)
      ELSE CodeResult(options, format,
                      generateMarkdownBadge(options.baseUrl, badgePath,
                                            options.linkUrl, options.altText),
                      badgeUrl)

\* generateBadgeCode(options): badgeParams is {} and format 'markdown' when
\* they are undefined.
generateBadgeCode(options) ==
  LET badgeParams == IF options.badgeParams.k = "undefined" THEN NoEntries
                     ELSE options.badgeParams
      format      == IF options.format.t = "undefined"
                     THEN Str(<<"m", "a", "r", "k", "d", "o", "w", "n">>)
                     ELSE options.format
  IN  IF badgeParams.k = "null"
      THEN CodeError("Cannot read properties of null (reading 'style')")
      ELSE IF format.t = "null"
      THEN IF ParseUrl(buildBadgeUrl(options.baseUrl,
                                     badgeParams.entries)).ok
           THEN CodeError("Cannot read properties of null "
                            \o "(reading 'toLowerCase')")
           ELSE CodeError("Invalid URL")
      ELSE CodeFor(options, format.s,
                   buildBadgeUrl(options.baseUrl, badgeParams.entries))

----------------------------------------------------------------------------
(* exchange-rate-client.js: the client of the exchange rate API.  What     *)
(* fetch and response.json() settle with is the choice of the network and  *)
(* of the remote API; console.error and console.warn only log.             *)

EXCHANGE_RATE_API_BASE ==
  <<"h", "t", "t", "p", "s", ":", "/", "/", "a", "p", "i", ".", "p", "r",
      "o", "f", "u", "l", "l", "s", "t", "a", "c", "k", ".", "c", "o", "m",
      "/", "a", "p", "i", "/", "e", "x", "c", "h", "a", "n", "g", "e", "-",
      "r", "a", "t", "e", "s">>

\* A number with decimals: m / 10^k, with no trailing zero among the k
\* decimals.
Dec(m, k) == [t |-> "number", s |-> <<>>, n |-> m, k |-> k]

NaN == [t |-> "number", s |-> <<"N", "a", "N">>, n |-> 0, k |-> 0]

\* An array of strings.
List(items) == [t |-> "array", s |-> <<>>, n |-> Len(items), items |-> items]

\* m / 10^k without the trailing zeros of its decimals.
RECURSIVE Canonical(_, _)
Canonical(m, k) ==
  IF k > 0 /\ m % 10 = 0 THEN Canonical(m \div 10, k - 1) ELSE Dec(m, k)

\* parseFloat from position i of the text on, after the sign: the digits,
\* and the decimals when a point follows them, read up to the first
\* character that belongs to neither; m holds the digits read so far, k
\* counts those read after the point, and seen tells that there is one.
\* The strings of the inputs hold no exponent and no Infinity.
RECURSIVE ScanNumeral(_, _, _, _, _, _, _)
ScanNumeral(text, i, sign, m, k, seen, point) ==
  IF i <= Len(text) /\ text[i] \in Digits
  THEN ScanNumeral(text, i + 1, sign, 10 * m + (Code(text[i]) - 48),
                   IF point THEN k + 1 ELSE k, TRUE, point)
  ELSE IF i <= Len(text) /\ text[i] = "." /\ ~point
  THEN ScanNumeral(text, i + 1, sign, m, k, seen, TRUE)
  ELSE IF seen THEN Canonical(sign * m, k)
  ELSE NaN

\* The first position from i on of a character that is not white space.
RECURSIVE SkipSpace(_, _)
SkipSpace(text, i) ==
  IF i <= Len(text) /\ text[i] \in WhiteSpace THEN SkipSpace(text, i + 1)
  ELSE i

\* s.join(',') of an array of strings.
RECURSIVE Joined(_, _)
Joined(items, i) ==
  IF i > Len(items) THEN <<>>
  ELSE (IF i = 1 THEN <<>> ELSE <<",">>) \o items[i] \o Joined(items, i + 1)

\* The string parseFloat(v) reads: String(v).
ParsedText(v) ==
  CASE v.t = "string"  -> v.s
    [] v.t = "array"   -> Joined(v.items, 1)
    [] v.t = "boolean" -> IF v.n = 1 THEN <<"t", "r", "u", "e">>
                          ELSE <<"f", "a", "l", "s", "e">>
    [] v.t = "null"    -> <<"n", "u", "l", "l">>
    [] v.t = "undefined" -> <<"u", "n", "d", "e", "f", "i", "n", "e", "d">>

\* parseFloat of the text from start, the position of its first character
\* that is not white space, on.
ParseFrom(text, start) ==
  IF start > Len(text) THEN NaN
  ELSE IF text[start] = "-"
  THEN ScanNumeral(text, start + 1, -1, 0, 0, FALSE, FALSE)
  ELSE IF text[start] = "+"
  THEN ScanNumeral(text, start + 1, 1, 0, 0, FALSE, FALSE)
  ELSE ScanNumeral(text, start, 1, 0, 0, FALSE, FALSE)

\* parseFloat(v): a number is read back from its own text as itself.
parseFloat(v) ==
  IF v.t = "number" THEN v
  ELSE ParseFrom(ParsedText(v), SkipSpace(ParsedText(v), 1))

\* The settled and the pending state of a promise.
Pending == [state |-> "pending", value |-> Undefined, message |-> <<>>]

Resolved(value) == [state |-> "resolved", value |-> value, message |-> <<>>]

Rejected(message) ==
  [state |-> "rejected", value |-> Undefined, message |-> message]

\* What fetch settles with: a rejection, or a response, whose ok is that
\* of its status.
NetworkError ==
  [failed |-> TRUE, message |-> <<"f", "e", "t", "c", "h", " ", "f", "a",
                                    "i", "l", "e", "d">>,
   ok |-> FALSE, status |-> 0, statusText |-> <<>>,
   parsable |-> FALSE, data |-> Undefined]

Response(status, statusText, parsable, message, data) ==
  [failed |-> FALSE, message |-> message,
   ok |-> status \in 200..299, status |-> status, statusText |-> statusText,
   parsable |-> parsable, data |-> data]

NoResponse == Response(0, <<>>, FALSE, <<>>, Undefined)

\* The object of a JSON body, with undefined for a property it has not.
Data(rate, crypto, fiat, timestamp, fiats) ==
  [t |-> "object", rate |-> rate, crypto |-> crypto, fiat |-> fiat,
   timestamp |-> timestamp, fiats |-> fiats]

\* The message of the TypeError of reading a property of null or of
\* undefined.
ReadError(of, property) ==
  <<"C", "a", "n", "n", "o", "t", " ", "r", "e", "a", "d", " ", "p", "r",
      "o", "p", "e", "r", "t", "i", "e", "s", " ", "o", "f", " ">>
    \o of \o <<" ", "(", "r", "e", "a", "d", "i", "n", "g", " ", "'">>
    \o property \o <<"'", ")">>

\* The message of the TypeError of x.toLowerCase() for an x that is not a
\* string.
LowerCaseError(name, v) ==
  IF v.t \in {"undefined", "null"}
  THEN ReadError(TemplateText(v), <<"t", "o", "L", "o", "w", "e", "r",
                                      "C", "a", "s", "e">>)
  ELSE name \o <<".", "t", "o", "L", "o", "w", "e", "r", "C", "a", "s",
                   "e", " ", "i", "s", " ", "n", "o", "t", " ", "a", " ",
                   "f", "u", "n", "c", "t", "i", "o", "n">>

\* The catch of getCurrentRate throwing the error it caught as it is.
FailureRethrown(fromCurrency, toCurrency, cause) == Rejected(cause)

\* The catch of getCurrentRate with the error of the given message.
Failure(fromCurrency, toCurrency, cause) ==
  Rejected(<<"F", "a", "i", "l", "e", "d", " ", "t", "o", " ", "f", "e",
               "t", "c", "h", " ", "e", "x", "c", "h", "a", "n", "g", "e",
               " ", "r", "a", "t", "e", " ", "f", "o", "r", " ">>
             \o TemplateText(fromCurrency) \o <<"/">>
             \o TemplateText(toCurrency) \o <<":", " ">> \o cause)

SUPPORTED_CRYPTOS ==
  List(<< <<"B", "T", "C">>, <<"E", "T", "H">>, <<"S", "O", "L">>,
          <<"U", "S", "D", "C">> >>)

\* The fiats of the catch of getSupportedCurrencies.
FallbackFiats ==
  List(<< <<"U", "S", "D">>, <<"E", "U", "R">>, <<"G", "B", "P">>,
          <<"J", "P", "Y">>, <<"A", "U", "D">>, <<"C", "A", "D">>,
          <<"C", "H", "F">>, <<"C", "N", "Y">>, <<"S", "E", "K">>,
          <<"N", "Z", "D">> >>)

\* The catch of getSupportedCurrencies throwing what it caught.
FallbackRethrown(cause) == Rejected(cause)

\* The catch of getSupportedCurrencies.
Fallback(cause) ==
  Resolved([cryptos |-> SUPPORTED_CRYPTOS, fiats |-> FallbackFiats])

\* What the catch of the function a request belongs to settles it with.
Caught(request, cause) ==
  IF request.kind = "rate"
  THEN Failure(request.fromCurrency, request.toCurrency, cause)
  ELSE Fallback(cause)

\* A request: the part of getCurrentRate, or of getSupportedCurrencies,
\* that runs to the first await, at fetch(url).
Fetching(kind, fromCurrency, toCurrency, options, url) ==
  [kind |-> kind, pc |-> "fetch", fromCurrency |-> fromCurrency,
   toCurrency |-> toCurrency, options |-> options, url |-> url,
   response |-> NoResponse, outcome |-> Pending]

\* A request with its promise settled.
Done(request, outcome) ==
  [request EXCEPT !.pc = "done", !.outcome = outcome]

\* toCurrency = 'USD' and baseCurrency = 'USD'
OrUSD(v) == IF v.t = "undefined" THEN Str(<<"U", "S", "D">>) ELSE v

\* getCurrentRate(fromCurrency, toCurrency, options) up to await fetch.
StartRate(fromCurrency, toCurrency, options) ==
  IF fromCurrency.t # "string"
  THEN Done(Fetching("rate", fromCurrency, OrUSD(toCurrency), options, <<>>),
            Failure(fromCurrency, OrUSD(toCurrency),
                    LowerCaseError(<<"f", "r", "o", "m", "C", "u", "r",
                                       "r", "e", "n", "c", "y">>,
                                   fromCurrency)))
  ELSE IF OrUSD(toCurrency).t # "string"
  THEN Done(Fetching("rate", fromCurrency, toCurrency, options, <<>>),
            Failure(fromCurrency, toCurrency,
                    LowerCaseError(<<"t", "o", "C", "u", "r", "r", "e",
                                       "n", "c", "y">>,
                                   toCurrency)))
  ELSE Fetching("rate", fromCurrency, OrUSD(toCurrency), options,
                EXCHANGE_RATE_API_BASE \o <<"/">>
                  \o ToLowerCase(fromCurrency.s) \o <<"/">>
                  \o ToLowerCase(OrUSD(toCurrency).s))

\* getSupportedCurrencies() up to await fetch.
StartSupported ==
  Fetching("supported", Undefined, Undefined, [k |-> "undefined"],
           EXCHANGE_RATE_API_BASE
             \o <<"/", "s", "u", "p", "p", "o", "r", "t", "e", "d">>)

\* From fetch settling with net to await response.json().
AfterFetch(request, net) ==
  IF net.failed THEN Done(request, Caught(request, net.message))
  ELSE IF ~net.ok
  THEN Done(request,
            Caught(request,
                   <<"A", "P", "I", " ", "e", "r", "r", "o", "r", ":",
                       " ">>
                     \o Decimal(net.status) \o <<" ">> \o net.statusText))
  ELSE [request EXCEPT !.pc = "json", !.response = net]

\* options.includeMetadata
IncludeMetadata(options) ==
  IF options.k = "undefined" THEN Undefined ELSE options.includeMetadata

\* getCurrentRate from the data of the body on.
RateOutcome(request, data) ==
  IF data.t = "null"
  THEN Caught(request, ReadError(<<"n", "u", "l", "l">>,
                                 <<"r", "a", "t", "e">>))
  ELSE IF data.t # "object"
  THEN Caught(request,
              <<"I", "n", "v", "a", "l", "i", "d", " ", "e", "x", "c",
                  "h", "a", "n", "g", "e", " ", "r", "a", "t", "e", " ",
                  "d", "a", "t", "a", " ", "r", "e", "c", "e", "i", "v",
                  "e", "d">>)
  ELSE IF ~Truthy(data.rate) \/ parseFloat(data.rate) = NaN
  THEN Caught(request,
              <<"I", "n", "v", "a", "l", "i", "d", " ", "e", "x", "c",
                  "h", "a", "n", "g", "e", " ", "r", "a", "t", "e", " ",
                  "d", "a", "t", "a", " ", "r", "e", "c", "e", "i", "v",
                  "e", "d">>)
  ELSE IF ~Truthy(data.crypto) \/ ~Truthy(data.fiat)
            \/ ~Truthy(data.timestamp)
  THEN Caught(request,
              <<"I", "n", "c", "o", "m", "p", "l", "e", "t", "e", " ",
                  "e", "x", "c", "h", "a", "n", "g", "e", " ", "r", "a",
                  "t", "e", " ", "r", "e", "s", "p", "o", "n", "s", "e",
                  " ", "r", "e", "c", "e", "i", "v", "e", "d">>)
  ELSE IF request.options.k = "null"
  THEN Caught(request,
              ReadError(<<"n", "u", "l", "l">>,
                        <<"i", "n", "c", "l", "u", "d", "e", "M", "e",
                            "t", "a", "d", "a", "t", "a">>))
  ELSE IF Truthy(IncludeMetadata(request.options))
  THEN Resolved([rate      |-> parseFloat(data.rate),
                 crypto    |-> data.crypto,
                 fiat      |-> data.fiat,
                 timestamp |-> data.timestamp])
  ELSE Resolved(parseFloat(data.rate))

\* getSupportedCurrencies from the data of the body on.
SupportedOutcome(request, data) ==
  IF data.t = "null"
  THEN Caught(request, ReadError(<<"n", "u", "l", "l">>,
                                 <<"f", "i", "a", "t", "s">>))
  ELSE IF data.t # "object"
  THEN Caught(request,
              <<"I", "n", "v", "a", "l", "i", "d", " ", "s", "u", "p",
                  "p", "o", "r", "t", "e", "d", " ", "c", "u", "r", "r",
                  "e", "n", "c", "i", "e", "s", " ", "r", "e", "s", "p",
                  "o", "n", "s", "e", " ", "f", "o", "r", "m", "a", "t",
                  " ", "-", " ", "m", "i", "s", "s", "i", "n", "g", " ",
                  "f", "i", "a", "t", "s", " ", "a", "r", "r", "a", "y">>)
  ELSE IF ~Truthy(data.fiats) \/ data.fiats.t # "array"
  THEN Caught(request,
              <<"I", "n", "v", "a", "l", "i", "d", " ", "s", "u", "p",
                  "p", "o", "r", "t", "e", "d", " ", "c", "u", "r", "r",
                  "e", "n", "c", "i", "e", "s", " ", "r", "e", "s", "p",
                  "o", "n", "s", "e", " ", "f", "o", "r", "m", "a", "t",
                  " ", "-", " ", "m", "i", "s", "s", "i", "n", "g", " ",
                  "f", "i", "a", "t", "s", " ", "a", "r", "r", "a", "y">>)
  ELSE Resolved([cryptos |-> SUPPORTED_CRYPTOS, fiats |-> data.fiats])

\* From response.json() settling to the end of the function.
AfterJson(request) ==
  IF ~request.response.parsable
  THEN Done(request, Caught(request, request.response.message))
  ELSE IF request.kind = "rate"
  THEN Done(request, RateOutcome(request, request.response.data))
  ELSE Done(request, SupportedOutcome(request, request.response.data))

\* What the function getMultipleRates maps over currencies returns for
\* currency once the getCurrentRate it awaits has settled with outcome: its
\* catch makes a value of a rejection.
RateOf(currency, outcome) ==
  IF outcome.state = "resolved"
  THEN [currency |-> currency, rate |-> outcome.value, success |-> TRUE,
        error |-> Undefined]
  ELSE [currency |-> currency, rate |-> Null, success |-> FALSE,
        error |-> Str(outcome.message)]

\* An element of the results of Promise.allSettled: that of a promise that
\* has not settled yet, and that of a promise fulfilled with value.
Unsettled == [status |-> "pending", value |-> Undefined]

Fulfilled(value) == [status |-> "fulfilled", value |-> value]

\* The currency whose assignment to an object of the prototype of objects
\* is the setter of Object.prototype and makes no key.
ProtoKey == <<"_", "_", "p", "r", "o", "t", "o", "_", "_">>

\* What the forEach of getMultipleRates assigns for the i-th result.
RateAssigned(settled, i) ==
  IF /\ settled[i].status = "fulfilled"
     /\ settled[i].value.success
  THEN settled[i].value.rate
  ELSE Null

\* After the first i results rates has no prototype: null was assigned
\* to rates['__proto__'].
RECURSIVE NoPrototype(_, _, _)
NoPrototype(currencies, settled, i) ==
  IF i = 0 THEN FALSE
  ELSE \/ NoPrototype(currencies, settled, i - 1)
       \/ /\ currencies[i] = ProtoKey
          /\ RateAssigned(settled, i) = Null

\* The own keys of rates after the forEach of getMultipleRates has gone
\* through the first i results.  rates['__proto__'] = value makes no key
\* while rates has its prototype: null takes the prototype away and a
\* number is dropped; it makes the key once the prototype is gone.
RECURSIVE RatesAfter(_, _, _)
RatesAfter(currencies, settled, i) ==
  IF i = 0 THEN <<>>
  ELSE IF /\ currencies[i] = ProtoKey
          /\ ~NoPrototype(currencies, settled, i - 1)
       THEN RatesAfter(currencies, settled, i - 1)
       ELSE (currencies[i] :> RateAssigned(settled, i))
              @@ RatesAfter(currencies, settled, i - 1)

\* What getMultipleRates returns from the results of Promise.allSettled.
RatesResult(currencies, settled) ==
  Resolved(Object(RatesAfter(currencies, settled, Len(settled))))

\* The promise of a call of getCurrentRate or of getSupportedCurrencies
\* is that of its request; the promise of a call of getMultipleRates with
\* an array is pending until the function has gone on from its await.
CallResult(name, promises) ==
  IF name = "getMultipleRates" THEN Pending ELSE promises[1].outcome

----------------------------------------------------------------------------
(* Inputs *)

\* Number of fragments an input text is put together from, at most.
MaxFragments == 2

\* MAX_TEXT_LENGTH - 2 characters: two more reach the limit, three pass it.
Pad == [i \in 1..(MAX_TEXT_LENGTH - 2) |-> "a"]

Fragments ==
  << Pad,
     <<"j", "a", "v", "a", "s", "c", "r", "i">>,
     <<"s", "c", "r", "i">>,
     <<"p", "t">>,
     <<"p", "t", ":">>,
     <<"&", "p", "t">>,
     <<"&">>,
     <<"<">>,
     <<">">>,
     <<"%", "3", "C">>,
     <<"%">>,
     <<" ">>,
     <<"O", "n">>,
     <<"x", "=">>,
     <<"\"", "'">> >>

\* The concatenations of at most n fragments.
RECURSIVE Concatenations(_)
Concatenations(n) ==
  IF n = 0 THEN {<<>>}
  ELSE LET shorter == Concatenations(n - 1)
       IN  shorter \cup {s \o Fragments[i] :
                           s \in shorter, i \in 1..Len(Fragments)}

\* Texts written to get past the sanitiser, the first from the test suite.
AttackInputs ==
  {<<"<", "s", "c", "r", "i", "p", "t", ">", "a", "l", "e", "r", "t", "(",
     "\"", "x", "s", "s", "\"", ")", "<", "/", "s", "c", "r", "i", "p",
     "t", ">">>,
   <<"<", "i", "m", "g", " ", "s", "r", "c", "=", "x", " ", "o", "n", "e",
     "r", "r", "o", "r", "=", "a", "l", "e", "r", "t", "(", "1", ")",
     ">">>,
   <<"j", "a", "v", "a", "s", "c", "r", "i", "&", "p", "t", ":">>,
   <<"s", "c", "r", "s", "c", "r", "i", "&", "p", "t", "i", "p", "t">>,
   <<"%", "C", "3", "%", "A", "9", " ", "c", "a", "f", "%", "C", "3", "%",
     "A", "9">>}

TextInputs == Concatenations(MaxFragments) \cup AttackInputs

\* The texts of one fragment less.
ShorterTextInputs == Concatenations(MaxFragments - 1) \cup AttackInputs

ColorInputs ==
  {<<"#", "0", "0", "7", "b", "f", "f">>,
   <<"#", "3", "3", "3">>,
   <<"#", "F", "F", "F">>,
   <<"#", "1", "2">>,
   <<"#", "1", "2", "3", "4", "5", "6", "7">>,
   <<"#", "g", "g", "g">>,
   <<"n", "o", "t", "a", "c", "o", "l", "o", "r">>,
   <<"%", "2", "3", "a", "b", "c">>,
   <<" ", "#", "a", "b", "c", " ">>,
   <<"<", "b", ">">>,
   <<>>}

IconInputs ==
  {<<"c", "r", "y", "p", "t", "o">>,
   <<"b", "i", "t", "c", "o", "i", "n">>,
   <<"s", "t", "a", "r">>,
   <<"c", "o", "n", "s", "t", "r", "u", "c", "t", "o", "r">>,
   <<"<", "b", ">">>,
   Pad \o Pad}

StyleInputs ==
  {<<"e", "n", "h", "a", "n", "c", "e", "d">>,
   <<"s", "t", "a", "n", "d", "a", "r", "d">>,
   <<"f", "l", "a", "t">>}

\* Values that are not strings, Arr(MAX_TEXT_LENGTH + 1) with a length past
\* the limit.
NonStrings ==
  {Undefined, Null, Num(0), Num(7), Bool(TRUE), Arr(3),
   Arr(MAX_TEXT_LENGTH + 1)}

Strs(S) == {Str(s) : s \in S}

\* Objects that differ in the two texts: either text alone, a shorter
\* leftText beside a rightText, and values that are not strings.
TextObjects ==
  {[EmptyObject EXCEPT !.leftText = Str(t)] : t \in TextInputs}
    \cup {[EmptyObject EXCEPT !.rightText = Str(t)] : t \in TextInputs}
    \cup {[EmptyObject EXCEPT !.leftText = Str(t),
                              !.rightText = Str(<<"b", "i", "t", "c", "o",
                                                  "i",
                                                  "n">>)] :
            t \in ShorterTextInputs}
    \cup {[EmptyObject EXCEPT !.leftText = l, !.rightText = r] :
            l \in NonStrings, r \in NonStrings}

\* Objects that differ in the two colours.
ColorObjects ==
  {[EmptyObject EXCEPT !.leftColor = l, !.rightColor = r] :
     l \in Strs(ColorInputs) \cup NonStrings,
     r \in Strs(ColorInputs) \cup NonStrings}

\* Objects that differ in style, icon, the legacy text and the colours the
\* enhanced badge presets.
StyleObjects ==
  {[EmptyObject EXCEPT !.style = st, !.icon = ic, !.text = tx,
                       !.rightText = rt] :
     st \in Strs(StyleInputs) \cup {Undefined},
     ic \in Strs(IconInputs) \cup {Undefined, Null},
     tx \in {Undefined, Str(<<>>), Str(<<"D", "o", "n", "a", "t", "e">>),
             Str(<<"<", "b", ">">>),
             Str(<<"P", "a", "y", "<", "n", "o", "w", ">">>),
             Str(Pad \o <<"s", "c", "r", "i">>)},
     rt \in {Undefined, Str(<<"b", "i", "t", "c", "o", "i", "n">>)}}
    \cup
  {[EmptyObject EXCEPT !.icon = ic, !.leftColor = l, !.rightColor = r] :
     ic \in {Undefined, Str(<<"b", "i", "t", "c", "o", "i", "n">>),
             Str(<<"s", "t", "a", "r">>)},
     l \in {Undefined, Str(<<"#", "3", "3", "3">>),
            Str(<<"n", "o", "t", "a", "c", "o", "l", "o", "r">>)},
     r \in {Undefined, Str(<<>>), Str(<<"#", "0", "0", "7", "b", "f", "f">>),
            Str(<<"r", "e", "d">>)}}

\* Objects with labels of every length the validator accepts, with and
\* without an icon.
LayoutObjects ==
  {[EmptyObject EXCEPT !.leftText = Str([i \in 1..n |-> "a"]),
                       !.rightText = Str([i \in 1..n |-> "a"]),
                       !.icon = ic] :
     n \in 1..MAX_TEXT_LENGTH,
     ic \in {Undefined, Str(<<"c", "r", "y", "p", "t", "o">>),
             Str(<<"s", "t", "a", "r">>)}}

Objects == TextObjects \cup ColorObjects \cup StyleObjects \cup LayoutObjects

\* What a caller can pass: an object, null, or nothing.
Refs == {Object(m) : m \in Objects} \cup {NullRef, UndefinedRef}

\* An object that c.req.query() can return: the values it has are strings.
IsQuery(m) ==
  /\ \A k \in Keys : m[k].t \in {"undefined", "string"}

Queries == {m \in Objects : IsQuery(m)}

\* The alt texts, link URLs, badge paths and base URLs the code generator
\* is called with: those of its tests, and texts written to leave an
\* attribute of the HTML.
AltTextInputs ==
  Strs({<<"C", "r", "y", "p", "t", "o", " ", "P", "a", "y", "m", "e", "n",
        "t">>,
         <<"C", "r", "y", "p", "t", "o", " ", "&", " ", "B", "i", "t", "c",
        "o", "i", "n">>,
         <<"\"", ">", "<", "s", "c", "r", "i", "p", "t", ">">>,
         <<"x", "\"", " ", "o", "n", "e", "r", "r", "o", "r", "=", "\"", "y">>,
         <<"i", "t", "'", "s">>,
         <<"&", "a", "m", "p", ";">>,
         <<"a", "<", "b", ">", "c">>,
         <<>>})
    \cup {Undefined, Num(7)}

LinkUrlInputs ==
  Strs({<<"h", "t", "t", "p", "s", ":", "/", "/", "e", "x", "a", "m", "p",
        "l", "e", ".", "c", "o", "m">>,
         <<"h", "t", "t", "p", "s", ":", "/", "/", "e", ".", "i", "o", "/",
        "?", "a", "=", "1", "&", "b", "=", "2">>,
         <<"h", "t", "t", "p", "s", ":", "/", "/", "e", ".", "i", "o", "/",
        "\"", " ", "o", "n", "c", "l", "i", "c", "k", "=", "\"", "x">>,
         <<"\"", ">", "<", "s", "c", "r", "i", "p", "t", ">">>})
    \cup {Undefined}

BadgePathInputs ==
  Strs({<<"/", "b", "a", "d", "g", "e", ".", "s", "v", "g">>,
         <<"/", "b", "a", "d", "g", "e", ".", "s", "v", "g", "?", "l", "e",
        "f", "t", "T", "e", "x", "t", "=", "d", "o", "n", "a", "t", "e",
        "&", "r", "i", "g", "h", "t", "T", "e", "x", "t", "=", "b", "i",
        "t", "c", "o", "i", "n">>,
         <<"h", "t", "t", "p", "s", ":", "/", "/", "c", "d", "n", ".", "i",
        "o", "/", "b", ".", "s", "v", "g">>,
         <<"/", "b", "a", "d", "g", "e", ".", "s", "v", "g", "?", "x", "=",
        "\"", "y">>,
         <<"/", "b", ".", "s", "v", "g", "\"", " ", "o", "n", "l", "o", "a",
        "d", "=", "\"", "x">>})
    \cup {Undefined}

BaseUrlInputs ==
  Strs({<<"h", "t", "t", "p", "s", ":", "/", "/", "p", "a", "y", "b", "a",
        "d", "g", "e", ".", "p", "r", "o", "f", "u", "l", "l", "s", "t",
        "a", "c", "k", ".", "c", "o", "m">>,
         <<"h", "t", "t", "p", ":", "/", "/", "l", "o", "c", "a", "l", "h",
        "o", "s", "t", ":", "3", "0", "0", "0">>,
         <<"h", "t", "t", "p", "s", ":", "/", "/", "x", ".", "i", "o", "/",
        "a", "p", "p">>,
         <<"x", ".", "i", "o">>})

\* The badgeParams of generateBadgeCode: nothing, null, or an object as
\* its entries in insertion order.
BadgeParamsInputs ==
  {[k |-> "undefined", entries |-> <<>>], [k |-> "null", entries |-> <<>>]}
    \cup
  {[k |-> "object", entries |-> e] : e \in
    {<<>>,
     << [key   |-> <<"l", "e", "f", "t", "T", "e", "x", "t">>,
        value |-> Str(<<"d", "o", "n", "a", "t", "e">>)],
      [key   |-> <<"r", "i", "g", "h", "t", "T", "e", "x", "t">>,
        value |-> Str(<<"c", "r", "y", "p", "t", "o">>)],
      [key   |-> <<"l", "e", "f", "t", "C", "o", "l", "o", "r">>,
        value |-> Str(<<"#", "3", "3", "3">>)],
      [key   |-> <<"r", "i", "g", "h", "t", "C", "o", "l", "o", "r">>,
        value |-> Str(<<"#", "0", "0", "7", "b", "f", "f">>)] >>,
     << [key   |-> <<"s", "t", "y", "l", "e">>,
        value |-> Str(<<"e", "n", "h", "a", "n", "c", "e", "d">>)] >>,
     << [key   |-> <<"r", "i", "g", "h", "t", "T", "e", "x", "t">>,
        value |-> Str(<<"b", "i", "t", "c", "o", "i", "n">>)],
      [key   |-> <<"s", "t", "y", "l", "e">>,
        value |-> Str(<<"e", "n", "h", "a", "n", "c", "e", "d">>)] >>,
     << [key   |-> <<"s", "t", "y", "l", "e">>,
        value |-> Str(<<"f", "l", "a", "t">>)],
      [key   |-> <<"i", "c", "o", "n">>,
        value |-> Str(<<"s", "t", "a", "r">>)] >>,
     << [key   |-> <<"r", "i", "g", "h", "t", "T", "e", "x", "t">>,
        value |-> Str(<<"a", "\"", "b", "<", "c", ">">>)] >>,
     << [key   |-> <<"l", "e", "f", "t", "T", "e", "x", "t">>,
        value |-> Str(<<"p", "a", "y", " ", "n", "o", "w">>)],
      [key   |-> <<"r", "i", "g", "h", "t", "T", "e", "x", "t">>,
        value |-> Str(<<"i", "t", "'", "s">>)] >>,
     << [key   |-> <<"r", "i", "g", "h", "t", "T", "e", "x", "t">>,
        value |-> Str(<<"c", "a", "f", "\\u00e9">>)] >>,
     << [key   |-> <<"l", "e", "f", "t", "T", "e", "x", "t">>,
        value |-> Str(<<>>)],
      [key   |-> <<"r", "i", "g", "h", "t", "T", "e", "x", "t">>,
        value |-> Null],
      [key   |-> <<"i", "c", "o", "n">>,
        value |-> Undefined] >>,
     << [key   |-> <<"r", "i", "g", "h", "t", "T", "e", "x", "t">>,
        value |-> Str(<<"5", "0", "%", "&", "x", "=", "y", "#",
                                "z">>)] >>}}

FormatInputs ==
  {Undefined, Null,
   Str(<<"h", "t", "m", "l">>),
   Str(<<"H", "T", "M", "L">>),
   Str(<<"m", "a", "r", "k", "d", "o", "w", "n">>),
   Str(<<"p", "d", "f">>),
   Str(<<"H", "T", "M", "L", "\\u00c9">>)}

\* The arguments of a call of generateMarkdownBadge or generateHTMLBadge.
BadgeCalls ==
  [baseUrl : BaseUrlInputs, badgePath : BadgePathInputs,
   linkUrl : LinkUrlInputs, altText : AltTextInputs]

\* The options of a call of generateBadgeCode.
CodeOptions ==
  [baseUrl     : BaseUrlInputs,
   badgeParams : BadgeParamsInputs,
   linkUrl     : {Str(<<"h", "t", "t", "p", "s", ":", "/", "/", "e", "x",
                       "a", "m", "p", "l", "e", ".", "c", "o", "m">>),
                  Str(<<"h", "t", "t", "p", "s", ":", "/", "/", "e", ".",
                       "i", "o", "/", "\"", " ", "o", "n", "c", "l", "i",
                       "c", "k", "=", "\"", "x">>)},
   altText     : {Str(<<"C", "r", "y", "p", "t", "o", " ", "&", " ", "B",
                       "i", "t", "c", "o", "i", "n">>),
                  Str(<<"x", "\"", " ", "o", "n", "e", "r", "r", "o", "r",
                       "=", "\"", "y">>)},
   format      : FormatInputs]

\* Number of currencies getMultipleRates is asked for, at most.
MaxCurrencies == 3

\* The currencies of the test of a batch, and on from them.
CurrencySequences ==
  [i \in 1..(MaxCurrencies + 1) |->
     IF i % 4 = 1 THEN <<"B", "T", "C">>
     ELSE IF i % 4 = 2 THEN <<"I", "N", "V", "A", "L", "I", "D">>
     ELSE IF i % 4 = 3 THEN <<"E", "T", "H">>
     ELSE <<"S", "O", "L">>]

\* The currencies of getMultipleRates: an array of at most MaxCurrencies
\* codes of that test, the array of the other test, one that asks for a
\* currency twice, two that ask for '__proto__', or nothing.
CurrenciesInputs ==
  {List(SubSeq(CurrencySequences, 1, n)) : n \in 0..MaxCurrencies}
    \cup {List(<< <<"B", "T", "C">>, <<"E", "T", "H">>, <<"S", "O", "L">> >>),
          List(<< <<"E", "T", "H">>, <<"B", "T", "C">>, <<"E", "T", "H">> >>),
          List(<<ProtoKey, <<"B", "T", "C">> >>),
          List(<<ProtoKey, ProtoKey>>),
          Undefined}

FromCurrencyInputs ==
  {Str(<<"B", "T", "C">>), Str(<<"b", "t", "c">>),
   Str(<<"I", "N", "V", "A", "L", "I", "D">>), Str(<<>>), Undefined}

ToCurrencyInputs == {Undefined, Str(<<"E", "U", "R">>)}

\* options: nothing, {}, {includeMetadata: true}, or null.
OptionsInputs ==
  {[k |-> "undefined", includeMetadata |-> Undefined],
   [k |-> "object", includeMetadata |-> Undefined],
   [k |-> "object", includeMetadata |-> Bool(TRUE)],
   [k |-> "null", includeMetadata |-> Undefined]}

\* What a JSON body can hold for rate.
RateInputs ==
  {Undefined, Null, Dec(0, 0), Dec(45000, 0), Dec(30005, 1), Dec(-1, 0),
   Str(<<"4", "5", "0", "0", "0">>), Str(<<"1", "0", "4", ".", "2", "5">>),
   Str(<<"1", "2", "a", "b", "c">>), Str(<<"a", "b", "c">>), Str(<<>>),
   Str(<<" ", "4", "2">>), Str(<<".", "5", "0">>), Bool(TRUE),
   List(<< <<"5">> >>), List(<<>>)}

Timestamp ==
  Str(<<"2", "0", "2", "5", "-", "0", "6", "-", "1", "9", "T", "0", "1",
          ":", "1", "9", ":", "3", "2", ".", "9", "9", "4", "Z">>)

\* The bodies of the rate endpoint that are JSON.
RateData ==
  {Null, Dec(5, 0)}
    \cup {Data(rate, crypto, fiat, timestamp, Undefined) :
            rate \in RateInputs,
            crypto \in {Undefined, Str(<<"B", "T", "C">>)},
            fiat \in {Undefined, Str(<<"U", "S", "D">>)},
            timestamp \in {Undefined, Timestamp}}

NotFound ==
  Response(404, <<"N", "o", "t", " ", "F", "o", "u", "n", "d">>, FALSE, <<>>,
           Undefined)

Unavailable ==
  Response(500, <<"I", "n", "t", "e", "r", "n", "a", "l", " ", "S", "e",
                    "r", "v", "e", "r", " ", "E", "r", "r", "o", "r">>,
           FALSE, <<>>, Undefined)

\* A response with a body that is not JSON: the message is that of the
\* SyntaxError of response.json().
Unparsable ==
  Response(200, <<"O", "K">>, FALSE,
           <<"U", "n", "e", "x", "p", "e", "c", "t", "e", "d", " ", "t",
               "o", "k", "e", "n", " ", "'", "<", "'", ",", " ", "\"", "<",
               "h", "t", "m", "l", ">", "\"", " ", "i", "s", " ", "n", "o",
               "t", " ", "v", "a", "l", "i", "d", " ", "J", "S", "O", "N">>,
           Undefined)

Ok(data) == Response(200, <<"O", "K">>, TRUE, <<>>, data)

\* What the fetch of getCurrentRate can settle with.
RateResponses ==
  {NetworkError, NotFound, Unavailable, Unparsable}
    \cup {Ok(data) : data \in RateData}

\* What the fetch of a request of getMultipleRates can settle with: a
\* network error, or a response with a rate, a number for BTC and a text
\* for the others.
BatchResponses(request) ==
  {NetworkError,
   Ok(Data(IF request.fromCurrency.s = <<"B", "T", "C">>
           THEN Dec(45000, 0)
           ELSE Str(<<"1", "0", "4", ".", "2", "5">>),
           request.fromCurrency, request.toCurrency, Timestamp, Undefined))}

\* What the fetch of getSupportedCurrencies can settle with.
SupportedResponses ==
  {NetworkError, Unavailable, Unparsable}
    \cup {Ok(data) : data \in
            {Null, Dec(5, 0)}
              \cup {Data(Undefined, Undefined, Undefined, Undefined, fiats) :
                      fiats \in {Undefined, Null, Str(<<"U", "S", "D">>),
                                 Str(<<>>), List(<<>>),
                                 List(<< <<"U", "S", "D">> >>),
                                 List(<< <<"U", "S", "D">>,
                                         <<"E", "U", "R">>,
                                         <<"I", "N", "R">> >>)}}}

\* What the fetch of a request of the call name can settle with.  The
\* remote is not part of the program and the client sends it whatever
\* code it is given: every request can get every answer.
Network(name, request) ==
  IF request.kind = "supported" THEN SupportedResponses
  ELSE IF name = "getMultipleRates" THEN BatchResponses(request)
  ELSE RateResponses

----------------------------------------------------------------------------
(* The state machine.  The program keeps no state between calls: a call  *)
(* of an exported function, or a request, starts when none is in          *)
(* progress, and Return ends it.  op names the call, arg is what was      *)
(* passed, argAfter the same reference after the call, ret the result.    *)
(* A request can be made a second time before Return, as a client does   *)
(* that holds the answer to the first: the same URL, with or without      *)
(* If-None-Match.  first is then the answer to the first request, and     *)
(* ifNoneMatch the header of the request.                                 *)

\* No request came before this one.
NoCall == [called |-> FALSE]

Init ==
  /\ op = "none"
  /\ arg = UndefinedRef
  /\ argAfter = UndefinedRef
  /\ ret = [isValid |-> TRUE]
  /\ first = NoCall
  /\ ifNoneMatch = NoHeader
  /\ requests = <<>>
  /\ order = <<>>
  /\ ratePromises = <<>>
  /\ results = <<>>

\* What the route name can be asked for: anything when no call is in
\* progress, and the query of the request in progress when it is the
\* first request of name.
Callable(name, all) ==
  IF op = "none" THEN all
  ELSE IF op = name /\ first = NoCall THEN {arg}
  ELSE {}

\* The If-None-Match a request can carry: none on the first request; none,
\* the ETag of the first response or another on the second.
Headers == IF op = "none" THEN {NoHeader} ELSE {NoHeader, ret.etag, StaleTag}

\* What first and arg become with a request of ref.
Called(ref) ==
  /\ first' = IF op = "none" THEN NoCall ELSE ret
  /\ arg' = IF op = "none" THEN ref ELSE arg

ValidateBadgeParams ==
  /\ op = "none"
  /\ \E ref \in Refs :
       /\ op' = "validateBadgeParams"
       /\ arg' = ref
       /\ first' = NoCall
       /\ argAfter' = ref
       /\ ret' = validateBadgeParams(ref)
       /\ ifNoneMatch' = NoHeader
  /\ UNCHANGED <<requests, order, ratePromises, results>>

GenerateBadgeSVG ==
  /\ op = "none"
  /\ \E ref \in Refs :
       /\ op' = "generateBadgeSVG"
       /\ arg' = ref
       /\ first' = NoCall
       /\ ret' = generateBadgeSVG(ref)
       /\ argAfter' = ret'.options
       /\ ifNoneMatch' = NoHeader
  /\ UNCHANGED <<requests, order, ratePromises, results>>

GenerateEnhancedBadge ==
  /\ op = "none"
  /\ \E ref \in Refs :
       /\ op' = "generateEnhancedBadge"
       /\ arg' = ref
       /\ first' = NoCall
       /\ ret' = generateEnhancedBadge(ref)
       /\ argAfter' = ret'.options
       /\ ifNoneMatch' = NoHeader
  /\ UNCHANGED <<requests, order, ratePromises, results>>

GetBadge ==
  /\ \E ref \in Callable("GET /badge.svg", {Object(q) : q \in Queries}) :
       \E header \in Headers :
         /\ op' = "GET /badge.svg"
         /\ Called(ref)
         /\ argAfter' = ref
         /\ ifNoneMatch' = header
         /\ ret' = etag(GetBadgeSvg(ref.m), header)
  /\ UNCHANGED <<requests, order, ratePromises, results>>

GetBadgeCrypto ==
  /\ \E ref \in Callable("GET /badge-crypto.svg", {Object(q) : q \in Queries}) :
       \E header \in Headers :
         /\ op' = "GET /badge-crypto.svg"
         /\ Called(ref)
         /\ argAfter' = ref
         /\ ifNoneMatch' = header
         /\ ret' = etag(GetBadgeCryptoSvg(ref.m), header)
  /\ UNCHANGED <<requests, order, ratePromises, results>>

GenerateMarkdownBadge ==
  /\ op = "none"
  /\ \E call \in BadgeCalls :
       /\ op' = "generateMarkdownBadge"
       /\ arg' = call
       /\ argAfter' = call
       /\ ret' = generateMarkdownBadge(call.baseUrl, call.badgePath,
                                       call.linkUrl, call.altText)
       /\ first' = NoCall
       /\ ifNoneMatch' = NoHeader
  /\ UNCHANGED <<requests, order, ratePromises, results>>

GenerateHTMLBadge ==
  /\ op = "none"
  /\ \E call \in BadgeCalls :
       /\ op' = "generateHTMLBadge"
       /\ arg' = call
       /\ argAfter' = call
       /\ ret' = generateHTMLBadge(call.baseUrl, call.badgePath,
                                   call.linkUrl, call.altText)
       /\ first' = NoCall
       /\ ifNoneMatch' = NoHeader
  /\ UNCHANGED <<requests, order, ratePromises, results>>

GenerateBadgeCode ==
  /\ op = "none"
  /\ \E options \in CodeOptions :
       /\ op' = "generateBadgeCode"
       /\ arg' = options
       /\ argAfter' = options
       /\ ret' = generateBadgeCode(options)
       /\ first' = NoCall
       /\ ifNoneMatch' = NoHeader
  /\ UNCHANGED <<requests, order, ratePromises, results>>

(* The calls of the exchange rate client.  A call starts its requests;    *)
(* each request goes on when its fetch settles and when its               *)
(* response.json() settles, in any order among the requests; order is the *)
(* order in which the requests settled, and ret the promise of the call.  *)
(* In getMultipleRates, ratePromises are the promises of the functions    *)
(* map calls and results what Promise.allSettled has taken of them; what  *)
(* goes on after an await is a step of its own.                           *)

ClientCalls == {"getCurrentRate", "getMultipleRates", "getSupportedCurrencies"}

\* order with the i-th request, when it has settled.
Settling(after, i) ==
  IF after[i].pc = "done" THEN Append(order, i) ELSE order

GetCurrentRate ==
  /\ op = "none"
  /\ \E fromCurrency \in FromCurrencyInputs, toCurrency \in ToCurrencyInputs,
        options \in OptionsInputs :
       /\ op' = "getCurrentRate"
       /\ arg' = [fromCurrency |-> fromCurrency, toCurrency |-> toCurrency,
                  options |-> options]
       /\ requests' = <<StartRate(fromCurrency, toCurrency, options)>>
       /\ order' = Settling(requests', 1)
       /\ ret' = CallResult("getCurrentRate", requests')
  /\ argAfter' = arg'
  /\ UNCHANGED <<first, ifNoneMatch, ratePromises, results>>

\* getMultipleRates(currencies, baseCurrency) up to its await: map calls
\* the function of each currency, which runs to its own await, and
\* Promise.allSettled is handed their promises.
GetMultipleRates ==
  /\ op = "none"
  /\ \E currencies \in CurrenciesInputs, baseCurrency \in ToCurrencyInputs :
       /\ op' = "getMultipleRates"
       /\ arg' = [currencies |-> currencies, baseCurrency |-> baseCurrency]
       /\ IF currencies.t # "array"
          THEN /\ requests' = <<>>
               /\ ratePromises' = <<>>
               /\ results' = <<>>
               /\ ret' = Rejected(ReadError(TemplateText(currencies),
                                            <<"m", "a", "p">>))
          ELSE /\ requests' =
                    [i \in 1..Len(currencies.items) |->
                       StartRate(Str(currencies.items[i]),
                                 OrUSD(baseCurrency),
                                 [k |-> "undefined",
                                  includeMetadata |-> Undefined])]
               /\ ratePromises' =
                    [i \in 1..Len(currencies.items) |-> Pending]
               /\ results' = [i \in 1..Len(currencies.items) |-> Unsettled]
               /\ ret' = CallResult("getMultipleRates", requests')
  /\ order' = <<>>
  /\ argAfter' = arg'
  /\ UNCHANGED <<first, ifNoneMatch>>

GetSupportedCurrencies ==
  /\ op = "none"
  /\ op' = "getSupportedCurrencies"
  /\ requests' = <<StartSupported>>
  /\ order' = <<>>
  /\ ret' = CallResult("getSupportedCurrencies", requests')
  /\ UNCHANGED <<arg, argAfter, first, ifNoneMatch, ratePromises, results>>

\* The fetch of a request settles.
FetchSettles ==
  /\ op \in ClientCalls
  /\ \E i \in 1..Len(requests) :
       /\ requests[i].pc = "fetch"
       /\ \E net \in Network(op, requests[i]) :
            requests' = [requests EXCEPT ![i] = AfterFetch(@, net)]
       /\ order' = Settling(requests', i)
  /\ ret' = CallResult(op, requests')
  /\ UNCHANGED <<op, arg, argAfter, first, ifNoneMatch, ratePromises,
                 results>>

\* The response.json() of a request settles.
JsonSettles ==
  /\ op \in ClientCalls
  /\ \E i \in 1..Len(requests) :
       /\ requests[i].pc = "json"
       /\ requests' = [requests EXCEPT ![i] = AfterJson(@)]
       /\ order' = Settling(requests', i)
  /\ ret' = CallResult(op, requests')
  /\ UNCHANGED <<op, arg, argAfter, first, ifNoneMatch, ratePromises,
                 results>>

\* The function of a currency goes on from its await of getCurrentRate,
\* whose promise has settled, and returns: its promise is fulfilled.
RateResumes ==
  /\ op = "getMultipleRates"
  /\ \E i \in 1..Len(ratePromises) :
       /\ requests[i].pc = "done"
       /\ ratePromises[i].state = "pending"
       /\ ratePromises' =
            [ratePromises EXCEPT
               ![i] = Resolved(RateOf(arg.currencies.items[i],
                                      requests[i].outcome))]
  /\ UNCHANGED <<op, arg, argAfter, ret, first, ifNoneMatch, requests,
                 order, results>>

\* Promise.allSettled takes the value of one of its promises, which has
\* been fulfilled; its own promise is fulfilled with results when it has
\* taken them all.
AllSettled ==
  /\ op = "getMultipleRates"
  /\ \E i \in 1..Len(ratePromises) :
       /\ ratePromises[i].state = "resolved"
       /\ results[i].status = "pending"
       /\ results' = [results EXCEPT ![i] = Fulfilled(ratePromises[i].value)]
  /\ UNCHANGED <<op, arg, argAfter, ret, first, ifNoneMatch, requests,
                 order, ratePromises>>

\* getMultipleRates goes on from its await of Promise.allSettled, whose
\* promise is fulfilled, builds rates and returns.
RatesResume ==
  /\ op = "getMultipleRates"
  /\ arg.currencies.t = "array"
  /\ ret.state = "pending"
  /\ \A i \in 1..Len(results) : results[i].status # "pending"
  /\ ret' = RatesResult(arg.currencies.items, results)
  /\ UNCHANGED <<op, arg, argAfter, first, ifNoneMatch, requests, order,
                 ratePromises, results>>

\* The call ends: a call of the client once its promise has settled.
Return ==
  /\ op # "none"
  /\ op \in ClientCalls => ret.state # "pending"
  /\ requests' = <<>>
  /\ order' = <<>>
  /\ ratePromises' = <<>>
  /\ results' = <<>>
  /\ op' = "none"
  /\ arg' = UndefinedRef
  /\ argAfter' = UndefinedRef
  /\ ret' = [isValid |-> TRUE]
  /\ first' = NoCall
  /\ ifNoneMatch' = NoHeader

Next ==
  \/ ValidateBadgeParams
  \/ GenerateBadgeSVG
  \/ GenerateEnhancedBadge
  \/ GetBadge
  \/ GetBadgeCrypto
  \/ GenerateMarkdownBadge
  \/ GenerateHTMLBadge
  \/ GenerateBadgeCode
  \/ Return

Spec == Init /\ [][Next]_vars

\* The calls of the exchange rate client alone.
ClientNext ==
  \/ GetCurrentRate
  \/ GetMultipleRates
  \/ GetSupportedCurrencies
  \/ FetchSettles
  \/ JsonSettles
  \/ RateResumes
  \/ AllSettled
  \/ RatesResume
  \/ Return

\* A function that awaits a promise goes on once the promise has settled,
\* and Promise.allSettled takes the value of each promise that has: the
\* jobs these queue are run.  Whether and when the network settles a fetch
\* or a body is left open.
ClientSpec ==
  /\ Init
  /\ [][ClientNext]_vars
  /\ WF_vars(RateResumes)
  /\ WF_vars(AllSettled)
  /\ WF_vars(RatesResume)

----------------------------------------------------------------------------
(* Properties *)

\* lit is a substring of s.
Contains(s, lit) ==
  \E i \in 1..(Len(s) - Len(lit) + 1) : SubSeq(s, i, i + Len(lit) - 1) = lit

\* lit (lower case) is a substring of s, compared case-insensitively.
ContainsIgnoringCase(s, lit) ==
  \E i \in 1..(Len(s) - Len(lit) + 1) :
    \A k \in 1..Len(lit) : ToLower(s[i + k - 1]) = lit[k]

FiveCharacters == {"<", ">", "&", "\"", "'"}

HasFiveCharacter(s) == \E i \in 1..Len(s) : s[i] \in FiveCharacters

\* s matches ^#[0-9A-Fa-f]{3,6}$
IsHexColor(s) ==
  /\ Len(s) >= 4
  /\ Len(s) <= 7
  /\ s[1] = "#"
  /\ \A i \in 2..Len(s) :
       s[i] \in {"0", "1", "2", "3", "4", "5", "6", "7", "8", "9",
                 "a", "b", "c", "d", "e", "f", "A", "B", "C", "D", "E", "F"}

\* The six fields of validated params.
ParamKeys == Keys \ {"text"}

\* x.length of JavaScript where it is a number, else 0.
RawLength(v) ==
  IF v.t = "string" THEN Len(v.s) ELSE IF v.t = "array" THEN v.n ELSE 0

\* A raw text as the claims take it: a string of at most 50 characters.
IsShortString(v) == v.t = "string" /\ Len(v.s) <= 50

\* What the sanitiser leaves of a raw value: the empty string when the value
\* is not a string.
Cleaned(v) == IF v.t = "string" THEN SanitizeString(v.s) ELSE <<>>

\* Cleaned(v), or default when that is empty.
CleanedOr(v, default) == IF Cleaned(v) = <<>> THEN default ELSE Cleaned(v)

Validated == op = "validateBadgeParams" /\ ret.isValid

\* The user-derived texts of an SVG: aria-label, title and the text nodes.
UserTexts(svg) ==
  {svg.ariaLabel, svg.title} \cup {svg.texts[i].text : i \in 1..4}

(* C1: every string field of the params validateBadgeParams returns is    *)
(* free of the five characters < > & " '.                                  *)
C1_FieldsFreeOfFiveCharacters ==
  Validated =>
    \A k \in ParamKeys :
      ret.params.m[k].t = "string" => ~HasFiveCharacter(ret.params.m[k].s)

\* A raw leftText with one of the five characters was accepted and what is
\* left of it is the validated leftText.
C1_Witness ==
  /\ Validated
  /\ arg.m.leftText.t = "string"
  /\ HasFiveCharacter(arg.m.leftText.s)
  /\ ret.params.m.leftText.s # <<"p", "a", "y", "b", "a", "d", "g", "e">>

(* C2: for raw leftText and rightText that are strings of at most 50       *)
(* characters, the user-derived text of the SVG generateBadgeSVG returns   *)
(* contains neither javascript: nor <script.  The code lets javascript:    *)
(* through.                                                                *)
C2_NoJavascriptInSvg ==
  /\ op = "generateBadgeSVG"
  /\ arg.k = "object"
  /\ IsShortString(arg.m.leftText)
  /\ IsShortString(arg.m.rightText)
  /\ ~ret.threw
  => \A t \in UserTexts(ret.svg) :
       /\ ~Contains(t, <<"j", "a", "v", "a", "s", "c", "r", "i", "p", "t",
                         ":">>)
       /\ ~Contains(t, <<"<", "s", "c", "r", "i", "p", "t">>)

(* C3: the label sanitizeText produces, and so the label in the body of a  *)
(* 200 response of GET /badge.svg, contains none of the keywords script,   *)
(* alert, eval, prompt, confirm in any case.  The code lets them through.  *)
C3_NoKeywordInLabel ==
  /\ Validated =>
       \A k \in {"leftText", "rightText"} :
         \A w \in 1..Len(Keywords) :
           ~ContainsIgnoringCase(ret.params.m[k].s, Keywords[w])
  /\ op = "GET /badge.svg" /\ ret.status = 200 =>
       \A i \in 1..4 :
         \A w \in 1..Len(Keywords) :
           ~ContainsIgnoringCase(ret.body.texts[i].text, Keywords[w])

(* C4: validateBadgeParams answers the text-too-long error exactly when    *)
(* the raw leftText or rightText is longer than 50: 50 is accepted, 51 is  *)
(* rejected, whatever the decoded and sanitised form would be.             *)
C4_TooLongExactlyWhenRawLonger ==
  op = "validateBadgeParams" =>
    (ret.error = "Text too long. Maximum 50 characters allowed."
       <=> \/ RawLength(arg.m.leftText) > 50
           \/ RawLength(arg.m.rightText) > 50)

\* A raw leftText of 51 characters is rejected although it decodes and
\* sanitises to fewer than 50.
C4_Witness ==
  /\ op = "validateBadgeParams"
  /\ arg.m.leftText.t = "string"
  /\ Len(arg.m.leftText.s) = 51
  /\ Len(SanitizeString(arg.m.leftText.s)) < 50
  /\ ~ret.isValid
  /\ ret.error = "Text too long. Maximum 50 characters allowed."

(* C5 as claimed: for every input, null included, validateBadgeParams      *)
(* answers success or the text-too-long error, and generateBadgeSVG and    *)
(* generateEnhancedBadge fail with that error only.                        *)
C5_OnlyTextTooLong ==
  /\ op = "validateBadgeParams" =>
       \/ ret.isValid
       \/ ret.error = "Text too long. Maximum 50 characters allowed."
  /\ op \in {"generateBadgeSVG", "generateEnhancedBadge"} /\ ret.threw =>
       ret.error = "Text too long. Maximum 50 characters allowed."

(* C5 amended: the same for every input that is an object or no argument;  *)
(* for null validateBadgeParams answers a result whose error begins        *)
(* Parameter validation failed, and the two generators throw the TypeError *)
(* of reading a property of null.                                          *)
C5_OnlyTextTooLongUnlessNull ==
  /\ op = "validateBadgeParams" /\ arg.k # "null" =>
       \/ ret.isValid
       \/ ret.error = "Text too long. Maximum 50 characters allowed."
  /\ /\ op \in {"generateBadgeSVG", "generateEnhancedBadge"}
     /\ arg.k # "null"
     /\ ret.threw
     => ret.error = "Text too long. Maximum 50 characters allowed."
  /\ op = "validateBadgeParams" /\ arg.k = "null" =>
       /\ ~ret.isValid
       /\ ret.error = "Parameter validation failed: Cannot read properties "
                        \o "of null (reading 'leftText')"
  /\ op = "generateBadgeSVG" /\ arg.k = "null" =>
       /\ ret.threw
       /\ ret.error = "Cannot read properties of null (reading 'text')"
  /\ op = "generateEnhancedBadge" /\ arg.k = "null" =>
       /\ ret.threw
       /\ ret.error = "Cannot read properties of null (reading 'icon')"

\* A leftText with a malformed percent-escape, which decodeURIComponent
\* rejects, was validated with success.
C5_Witness ==
  /\ op = "validateBadgeParams"
  /\ arg.k = "object"
  /\ arg.m.leftText.t = "string"
  /\ ~decodeURIComponent(arg.m.leftText.s).ok
  /\ ret.isValid

(* C6: each of leftText, rightText, leftColor, rightColor whose raw value  *)
(* is missing, empty, not a string or sanitised to the empty string is its *)
(* default in the validated params.                                        *)
C6_DefaultsWhenEmpty ==
  Validated =>
    /\ Cleaned(arg.m.leftText) = <<>> =>
         ret.params.m.leftText = Str(<<"p", "a", "y", "b", "a", "d", "g",
                                       "e">>)
    /\ Cleaned(arg.m.rightText) = <<>> =>
         ret.params.m.rightText = Str(<<"c", "r", "y", "p", "t", "o">>)
    /\ Cleaned(arg.m.leftColor) = <<>> =>
         ret.params.m.leftColor = Str(<<"#", "5", "5", "5">>)
    /\ Cleaned(arg.m.rightColor) = <<>> =>
         ret.params.m.rightColor = Str(<<"#", "4", "c", "1">>)

\* A raw rightText that is not empty was sanitised away and the default
\* stands in for it.
C6_Witness ==
  /\ Validated
  /\ arg.m.rightText.t = "string"
  /\ arg.m.rightText.s # <<>>
  /\ Cleaned(arg.m.rightText) = <<>>
  /\ ret.params.m.rightText = Str(<<"c", "r", "y", "p", "t", "o">>)

(* C7: in every successful result of validateBadgeParams both colours      *)
(* match ^#[0-9A-Fa-f]{3,6}$.                                              *)
C7_ColorsAreHex ==
  Validated =>
    /\ ret.params.m.leftColor.t = "string"
    /\ ret.params.m.rightColor.t = "string"
    /\ IsHexColor(ret.params.m.leftColor.s)
    /\ IsHexColor(ret.params.m.rightColor.s)

\* A raw leftColor that is no hex colour, beside a rightColor that is one.
C7_Witness ==
  /\ Validated
  /\ arg.m.leftColor.t = "string"
  /\ ~IsHexColor(Cleaned(arg.m.leftColor))
  /\ Cleaned(arg.m.leftColor) # <<>>
  /\ IsHexColor(Cleaned(arg.m.rightColor))

(* C8: if either colour fails the hex pattern after sanitisation, both     *)
(* are the defaults #555 and #4c1; if both match, both are returned as     *)
(* they are.                                                               *)
C8_CoupledColorFallback ==
  Validated =>
    LET left  == CleanedOr(arg.m.leftColor, <<"#", "5", "5", "5">>)
        right == CleanedOr(arg.m.rightColor, <<"#", "4", "c", "1">>)
    IN  IF IsHexColor(left) /\ IsHexColor(right)
        THEN /\ ret.params.m.leftColor = Str(left)
             /\ ret.params.m.rightColor = Str(right)
        ELSE /\ ret.params.m.leftColor = Str(<<"#", "5", "5", "5">>)
             /\ ret.params.m.rightColor = Str(<<"#", "4", "c", "1">>)

\* leftColor=notacolor with rightColor=#007bff gives #555 and #4c1.
C8_Witness ==
  /\ Validated
  /\ arg.m.leftColor = Str(<<"n", "o", "t", "a", "c", "o", "l", "o", "r">>)
  /\ arg.m.rightColor = Str(<<"#", "0", "0", "7", "b", "f", "f">>)
  /\ ret.params.m.leftColor = Str(<<"#", "5", "5", "5">>)
  /\ ret.params.m.rightColor = Str(<<"#", "4", "c", "1">>)

\* generateEnhancedBadge returned an SVG.
Enhanced == op = "generateEnhancedBadge" /\ ~ret.threw

(* C9 as claimed: with icon and rightColor unset generateEnhancedBadge     *)
(* renders the crypto glyph and the right background #f7931a.              *)
C9_EnhancedDefaults ==
  Enhanced /\ ~Truthy(arg.m.icon) /\ ~Truthy(arg.m.rightColor) =>
    /\ ret.svg.iconSvg = GlyphMarkup
    /\ ret.svg.rightFill = <<"#", "f", "7", "9", "3", "1", "a">>

(* C9 amended: with icon unset the crypto glyph is rendered, and an icon   *)
(* the caller supplies takes its place: the glyph is rendered when it      *)
(* sanitises to crypto or bitcoin and not otherwise.  With rightColor      *)
(* unset the right background is #f7931a, and a rightColor the caller      *)
(* supplies takes its place (#4c1 when it sanitises to nothing), in both   *)
(* cases provided that colour and leftColor are hex colours: else the      *)
(* right background is #4c1, by the coupled fallback.                      *)
C9_EnhancedDefaultsUnlessFallback ==
  Enhanced =>
    LET left  == CleanedOr(arg.m.leftColor, <<"#", "5", "5", "5">>)
        right == IF Truthy(arg.m.rightColor)
                 THEN CleanedOr(arg.m.rightColor, <<"#", "4", "c", "1">>)
                 ELSE <<"#", "f", "7", "9", "3", "1", "a">>
    IN  /\ ~Truthy(arg.m.icon) => ret.svg.iconSvg = GlyphMarkup
        /\ Truthy(arg.m.icon) =>
             (ret.svg.iconSvg = GlyphMarkup
                <=> Cleaned(arg.m.icon) \in {<<"c", "r", "y", "p", "t",
                                               "o">>,
                                             <<"b", "i", "t", "c", "o",
                                               "i",
                                               "n">>})
        /\ ret.svg.rightFill =
             IF IsHexColor(left) /\ IsHexColor(right)
             THEN right
             ELSE <<"#", "4", "c", "1">>

\* Called with no icon and no colours: the glyph on #f7931a.
C9_Witness ==
  /\ Enhanced
  /\ arg.k = "object"
  /\ ~Truthy(arg.m.icon)
  /\ ~Truthy(arg.m.rightColor)
  /\ ~Truthy(arg.m.leftColor)
  /\ ret.svg.iconSvg = GlyphMarkup
  /\ ret.svg.rightFill = <<"#", "f", "7", "9", "3", "1", "a">>

(* C10: GET /badge-crypto.svg with no rightColor and no icon in the query  *)
(* answers an SVG with the right rectangle filled #f7931a and the crypto   *)
(* glyph.  The code fills it #4c1.                                         *)
C10_RouteEnhancedDefaults ==
  /\ op = "GET /badge-crypto.svg"
  /\ arg.m.rightColor = Undefined
  /\ arg.m.icon = Undefined
  /\ ret.status = 200
  => /\ ret.body.rightFill = <<"#", "f", "7", "9", "3", "1", "a">>
     /\ ret.body.iconSvg = GlyphMarkup

\* generateBadgeSVG returned an SVG.
Rendered == op = "generateBadgeSVG" /\ ~ret.threw

\* The params generateBadgeSVG rendered: those validateBadgeParams
\* answered for options.
RenderedParams == validateBadgeParams(argAfter).params.m

\* x <= y
AtMost(x, y) == ~Less(y, x)

\* The real numbers x and y differ by less than 2^-33.
Close(x, y) ==
  /\ Less(x, Sum(y, <<0, 1, 0, 0, 0>>))
  /\ Less(y, Sum(x, <<0, 1, 0, 0, 0>>))

\* The literal 6.6: the double 7430939385161318 * 2^-50.
SixPointSix == <<209712, 209715, 54067, 0, 0>>

\* max(6.6 * n + 12 + extra, 55) in JavaScript numbers.
SegmentWidth(n, extra) ==
  MathMax(Plus(Plus(Times(n, SixPointSix), FromInteger(12)),
               FromInteger(extra)),
          FromInteger(55))

\* 10 * max(6.6 * n + 12 + extra, 55) as the real number it is.
TenSegmentWidths(n, extra) ==
  FromInteger(IF 66 * n + 120 + 10 * extra >= 550
              THEN 66 * n + 120 + 10 * extra
              ELSE 550)

\* The rightWidth generateBadgeSVG computes for a right label of one
\* character, the rest of the params as rendered.
ShortRightWidth ==
  RightWidth([RenderedParams EXCEPT !.rightText = Str(<<"a">>)])

LongRightLabel == Rendered /\ Len(ret.svg.texts[3].text) = 20

(* C11 as claimed: the rightWidth for a right label of 20 characters and   *)
(* that for one of 1 character, the icon the same, differ by at least      *)
(* 19 * 11 * 0.6 = 125.4, and both are at least 55.                        *)
C11_WidthsDifferByTextWidth ==
  LongRightLabel =>
    /\ AtMost(Sum(Scale(10, ShortRightWidth), FromInteger(1254)),
              Scale(10, ret.svg.rightWidth))
    /\ AtMost(FromInteger(55), ret.svg.rightWidth)
    /\ AtMost(FromInteger(55), ShortRightWidth)

(* C11 amended: the rightWidth for a right label of 20 characters is 144,  *)
(* and 160 with an icon; that for one of 1 character is the minimum 55     *)
(* with or without an icon; so they differ by 89, and by 105 with an icon, *)
(* and both are at least 55.                                               *)
C11_WidthsDifferByClampedWidth ==
  LongRightLabel =>
    /\ ret.svg.rightWidth =
         Sum(FromInteger(144), IconWidth(RenderedParams))
    /\ ShortRightWidth = FromInteger(55)
    /\ AtMost(FromInteger(55), ret.svg.rightWidth)

\* A right label of 20 characters with an icon: 160 wide.
C11_Witness ==
  /\ LongRightLabel
  /\ RenderedParams.icon # Null
  /\ ret.svg.rightWidth = FromInteger(160)

(* C12: generateBadgeSVG computes leftWidth = max(6.6 * len(leftText) + 12, *)
(* 55) and rightWidth = max(6.6 * len(rightText) + 12 + iconWidth, 55),    *)
(* iconWidth 16 with an icon and 0 without, in JavaScript numbers (which   *)
(* is within 2^-33 of the real value); the width of the svg element is     *)
(* leftWidth + rightWidth; both are at least 55 and neither is less than   *)
(* the width of a label one character shorter.                             *)
C12_LayoutWidths ==
  Rendered =>
    LET n     == Len(ret.svg.texts[1].text)
        m     == Len(ret.svg.texts[3].text)
        extra == IF RenderedParams.icon # Null THEN 16 ELSE 0
    IN  /\ ret.svg.leftWidth = SegmentWidth(n, 0)
        /\ ret.svg.rightWidth = SegmentWidth(m, extra)
        /\ Close(Scale(10, ret.svg.leftWidth), TenSegmentWidths(n, 0))
        /\ Close(Scale(10, ret.svg.rightWidth), TenSegmentWidths(m, extra))
        /\ ret.svg.width = Plus(ret.svg.leftWidth, ret.svg.rightWidth)
        /\ AtMost(FromInteger(55), ret.svg.leftWidth)
        /\ AtMost(FromInteger(55), ret.svg.rightWidth)
        /\ AtMost(SegmentWidth(n - 1, 0), ret.svg.leftWidth)
        /\ AtMost(SegmentWidth(m - 1, extra), ret.svg.rightWidth)

\* Labels of 7 characters with an icon, where 6.6 * 7 + 12 is rounded to
\* a number below 58.2: the right segment is wider than the left one by
\* the 16 of the icon.
C12_Witness ==
  /\ Rendered
  /\ Len(ret.svg.texts[1].text) = 7
  /\ Len(ret.svg.texts[3].text) = 7
  /\ RenderedParams.icon # Null
  /\ ret.svg.rightWidth = Plus(ret.svg.leftWidth, FromInteger(16))
  /\ Less(Scale(10, ret.svg.leftWidth), FromInteger(582))

(* C13: in generateBadgeSVG the glyph is overlaid exactly when the         *)
(* validated style is enhanced, and the style is enhanced exactly when an  *)
(* icon is set.  The code never reads style.                               *)
C13_GlyphExactlyWhenEnhanced ==
  Rendered =>
    LET enhanced == RenderedParams.style
                      = Str(<<"e", "n", "h", "a", "n", "c", "e", "d">>)
    IN  /\ ret.svg.iconSvg # "" <=> enhanced
        /\ enhanced <=> RenderedParams.icon # Null

(* C14: for every icon identifier other than crypto and bitcoin, the      *)
(* texts being no longer than 50, generateBadgeSVG succeeds and the text   *)
(* inserted at the icon position is empty.  The code inserts the text of   *)
(* what Object.prototype has under that name.                              *)
C14_UnknownIconRendersNothing ==
  /\ op = "generateBadgeSVG"
  /\ arg.k = "object"
  /\ arg.m.icon.t = "string"
  /\ RawLength(arg.m.leftText) <= 50
  /\ RawLength(argAfter.m.rightText) <= 50
  /\ Cleaned(arg.m.icon) \notin {<<"c", "r", "y", "p", "t", "o">>,
                                 <<"b", "i", "t", "c", "o", "i", "n">>}
  => /\ ~ret.threw
     /\ ret.svg.iconSvg = ""

(* C15: whenever generateBadgeSVG emits the glyph, its horizontal extent,  *)
(* x from 8 to 20, lies within the right segment, from leftWidth to        *)
(* leftWidth + rightWidth.  The code draws it over the left segment.       *)
C15_GlyphInRightSegment ==
  Rendered /\ ret.svg.iconSvg = GlyphMarkup =>
    /\ AtMost(ret.svg.rightX, FromInteger(GlyphExtent.from))
    /\ AtMost(FromInteger(GlyphExtent.to),
              Plus(ret.svg.rightX, ret.svg.rightWidth))

(* C16: in generateBadgeSVG the legacy key text is an alias of rightText:  *)
(* when options carries a non-empty text, the call is rejected as too long *)
(* when text (or leftText) is longer than 50, and otherwise the right      *)
(* label is the sanitised text, whether rightText is supplied or not (the  *)
(* default crypto when nothing is left of text).                           *)
C16_TextIsRightText ==
  /\ op = "generateBadgeSVG"
  /\ arg.k = "object"
  /\ Truthy(arg.m.text)
  => IF RawLength(arg.m.text) > 50 \/ RawLength(arg.m.leftText) > 50
     THEN /\ ret.threw
          /\ ret.error = "Text too long. Maximum 50 characters allowed."
     ELSE /\ ~ret.threw
          /\ ret.svg.texts[3].text
               = CleanedOr(arg.m.text, <<"c", "r", "y", "p", "t", "o">>)
          /\ ret.svg.texts[4].text = ret.svg.texts[3].text

\* text Donate beside rightText bitcoin: the right label is Donate.
C16_Witness ==
  /\ op = "generateBadgeSVG"
  /\ arg.k = "object"
  /\ arg.m.text = Str(<<"D", "o", "n", "a", "t", "e">>)
  /\ arg.m.rightText = Str(<<"b", "i", "t", "c", "o", "i", "n">>)
  /\ ~ret.threw
  /\ ret.svg.texts[3].text = <<"D", "o", "n", "a", "t", "e">>

(* C17: text is a recognised query key of the badge endpoints: GET        *)
(* /badge.svg?text=X, with or without rightText, answers a badge whose     *)
(* right label is the sanitised X, the label generateBadgeSVG renders for  *)
(* the same map.  The route drops text.                                    *)
C17_RouteHonoursText ==
  /\ op = "GET /badge.svg"
  /\ Truthy(arg.m.text)
  /\ ~generateBadgeSVG(arg).threw
  => /\ ret.status = 200
     /\ ret.body.texts[3].text
          = CleanedOr(arg.m.text, <<"c", "r", "y", "p", "t", "o">>)
     /\ ret.body.texts[3].text = generateBadgeSVG(arg).svg.texts[3].text

(* C19: validateBadgeParams, generateBadgeSVG and generateEnhancedBadge   *)
(* leave the caller's argument map as it was: after any call it has the    *)
(* keys and values it had before.  generateBadgeSVG writes rightText into  *)
(* a map that has text.                                                    *)
C19_ArgumentUnchanged ==
  op \in {"validateBadgeParams", "generateBadgeSVG", "generateEnhancedBadge"}
    => argAfter = arg

(* C20: validateBadgeParams never answers a partly populated result:       *)
(* either isValid is true, error is null and params has leftText,          *)
(* rightText, leftColor, rightColor and style set to strings that are not  *)
(* empty and icon to such a string or null; or isValid is false, params    *)
(* is null and error is a message that is not empty.                       *)
C20_ResultAllOrNothing ==
  op = "validateBadgeParams" =>
    IF ret.isValid
    THEN /\ ret.error = NoError
         /\ ret.params.k = "object"
         /\ \A k \in ParamKeys \ {"icon"} :
              /\ ret.params.m[k].t = "string"
              /\ ret.params.m[k].s # <<>>
         /\ \/ ret.params.m.icon = Null
            \/ /\ ret.params.m.icon.t = "string"
               /\ ret.params.m.icon.s # <<>>
    ELSE /\ ret.params = NullRef
         /\ ret.error \notin {NoError, ""}

\* A map with nothing but a text that is too long: the failure has no
\* params.
C20_Witness ==
  /\ op = "validateBadgeParams"
  /\ arg.k = "object"
  /\ Len(arg.m.rightText.s) > 50
  /\ arg.m.icon = Undefined
  /\ ~ret.isValid
  /\ ret.params = NullRef

\* A badge route answered a request that carried no If-None-Match.
Answered ==
  /\ op \in {"GET /badge.svg", "GET /badge-crypto.svg"}
  /\ ifNoneMatch = NoHeader

\* The query as the route validates it: GET /badge-crypto.svg sets its
\* style to enhanced first.
RouteQuery ==
  IF op = "GET /badge-crypto.svg"
  THEN Object([arg.m EXCEPT
                 !.style = Str(<<"e", "n", "h", "a", "n", "c", "e", "d">>)])
  ELSE arg

\* What the generator of the route makes of the validated params.
RouteOutcome(params) ==
  IF op = "GET /badge-crypto.svg" THEN generateEnhancedBadge(params)
  ELSE generateBadgeSVG(params)

(* C21: GET /badge.svg and GET /badge-crypto.svg answer 400 with a JSON    *)
(* body holding the error of validateBadgeParams exactly when it rejects   *)
(* the query, and otherwise 200 with Content-Type image/svg+xml and the    *)
(* generated SVG as body.                                                  *)
C21_RejectedOrRendered ==
  Answered =>
    LET own        == validateBadgeParams(arg)
        validation == IF op = "GET /badge-crypto.svg"
                      THEN validateBadgeParams(RouteQuery)
                      ELSE own
        outcome    == RouteOutcome(validation.params)
    IN  /\ own.isValid = validation.isValid
        /\ IF ~own.isValid
           THEN /\ ret.status = 400
                /\ ret.contentType = "application/json"
                /\ ret.json.error = own.error
                /\ ret.json.error # NoError
           ELSE /\ ret.status = 200
                /\ ret.contentType = "image/svg+xml"
                /\ ~outcome.threw
                /\ ret.body = outcome.svg

\* GET /badge.svg was asked with a rightText longer than 50 characters and
\* answered 400 with the error of the validation.
C21_Witness ==
  /\ Answered
  /\ op = "GET /badge.svg"
  /\ RawLength(arg.m.rightText) > 50
  /\ ret.status = 400
  /\ ret.json.error = TextTooLongError

\* What the replace chain, trim and substring leave of a string that is
\* not decoded first.
Undecoded(s) == Substring0(Trim(ReplaceChain(s, 1)), MAX_TEXT_LENGTH)

\* The field the validated params hold for the raw value v of a text whose
\* default is default: '' || default for what is not a string, and the
\* undecoded string for one decodeURIComponent rejects.
TotalField(v, default, field) ==
  /\ v.t # "string" => field = default
  /\ v.t = "string" /\ ~decodeURIComponent(v.s).ok =>
       field = IF Undecoded(v.s) = <<>> THEN default ELSE Str(Undecoded(v.s))

(* C26: the sanitiser is total.  validateBadgeParams of an object never    *)
(* raises; it rejects only for a leftText or rightText longer than 50; a   *)
(* field that is undefined, null or not a string is sanitised to '' and    *)
(* so takes its default, and a string whose percent-decoding fails is      *)
(* sanitised undecoded.                                                    *)
C26_SanitiserTotal ==
  op = "validateBadgeParams" /\ arg.k = "object" =>
    /\ ret.error \in {NoError, TextTooLongError}
    /\ ~ret.isValid =>
         \/ RawLength(arg.m.leftText) > MAX_TEXT_LENGTH
         \/ RawLength(arg.m.rightText) > MAX_TEXT_LENGTH
    /\ ret.isValid =>
         /\ TotalField(arg.m.leftText, DEFAULT_CONFIG.leftText,
                       ret.params.m.leftText)
         /\ TotalField(arg.m.rightText, DEFAULT_CONFIG.rightText,
                       ret.params.m.rightText)
         /\ TotalField(arg.m.style, DEFAULT_CONFIG.style,
                       ret.params.m.style)
         /\ TotalField(arg.m.icon, DEFAULT_CONFIG.icon, ret.params.m.icon)

\* A leftText that ends in a lone %, which decodeURIComponent rejects, was
\* validated and is in the params with its %.
C26_Witness ==
  /\ Validated
  /\ arg.m.leftText = Str(<<"O", "n", "%">>)
  /\ ret.params.m.leftText = Str(<<"O", "n", "%">>)

(* C27 as claimed: validation is idempotent on its own output.  The params *)
(* validateBadgeParams returns are accepted by it again and returned with  *)
(* the same six field values; the labels and colours of the badge GET      *)
(* /badge.svg answers are those of the params the route validated.         *)
C27_ValidationIdempotent ==
  /\ Validated =>
       /\ validateBadgeParams(ret.params).isValid
       /\ validateBadgeParams(ret.params).params = ret.params
  /\ Answered /\ op = "GET /badge.svg" /\ ret.status = 200 =>
       /\ ret.body.texts[2].text = validateBadgeParams(arg).params.m.leftText.s
       /\ ret.body.texts[4].text
            = validateBadgeParams(arg).params.m.rightText.s
       /\ ret.body.leftFill = validateBadgeParams(arg).params.m.leftColor.s
       /\ ret.body.rightFill = validateBadgeParams(arg).params.m.rightColor.s

(* C28: for every query of string values GET /badge.svg and GET            *)
(* /badge-crypto.svg never answer 500: the params the route's validation   *)
(* accepted are accepted by the validation inside the generator, which     *)
(* does not throw.  What the validations and the generator make of a      *)
(* query is looked at where the query is first asked for.                  *)
C28_NeverServerError ==
  op \in {"GET /badge.svg", "GET /badge-crypto.svg"} =>
    /\ ret.status # 500
    /\ first = NoCall =>
         LET validation == validateBadgeParams(RouteQuery)
         IN  validation.isValid =>
               /\ validateBadgeParams(validation.params).isValid
               /\ ~RouteOutcome(validation.params).threw

\* A query whose rightText has exactly 50 characters, the longest the
\* route accepts, was answered 200.
C28_Witness ==
  /\ Answered
  /\ RawLength(arg.m.rightText) = MAX_TEXT_LENGTH
  /\ ret.status = 200
  /\ Len(ret.body.texts[4].text) = MAX_TEXT_LENGTH

(* C30 as claimed: generateBadgeSVG adds the 16 of the icon to the right   *)
(* segment exactly when it emits a non-empty icon fragment.                *)
C30_AllowanceWithGlyph ==
  Rendered =>
    ret.svg.rightWidth
      = SegmentWidth(Len(ret.svg.texts[3].text),
                     IF ret.svg.iconSvg # "" THEN 16 ELSE 0)

\* The names an object literal inherits a property under.
InheritedNames == {ObjectPrototype[i].name : i \in 1..Len(ObjectPrototype)}

(* C30: generateBadgeSVG adds the 16 of the icon to the right segment      *)
(* exactly when the validated icon is not null.  A non-empty icon fragment *)
(* is emitted only then, and is the glyph for crypto and bitcoin; the      *)
(* other way round fails: for an icon that names neither an entry of       *)
(* icons nor a property icons inherits, star for one, the 16 are added     *)
(* and the fragment is empty.                                              *)
C30_AllowanceWithIcon ==
  Rendered =>
    /\ ret.svg.rightWidth
         = SegmentWidth(Len(ret.svg.texts[3].text),
                        IF RenderedParams.icon # Null THEN 16 ELSE 0)
    /\ ret.svg.iconSvg # "" => RenderedParams.icon # Null
    /\ RenderedParams.icon \in {Str(<<"c", "r", "y", "p", "t", "o">>),
                                Str(<<"b", "i", "t", "c", "o", "i", "n">>)}
         => ret.svg.iconSvg = GlyphMarkup
    /\ /\ RenderedParams.icon # Null
       /\ RenderedParams.icon.s \notin
            {<<"c", "r", "y", "p", "t", "o">>,
             <<"b", "i", "t", "c", "o", "i", "n">>} \cup InheritedNames
       => ret.svg.iconSvg = ""

\* A badge with the icon star and a rightText of 7 characters: no
\* fragment, and a right segment 16 wider than that of the text alone.
C30_Witness ==
  /\ Rendered
  /\ RenderedParams.icon = Str(<<"s", "t", "a", "r">>)
  /\ Len(ret.svg.texts[3].text) = 7
  /\ ret.svg.iconSvg = ""
  /\ ret.svg.rightWidth = SegmentWidth(7, 16)
  /\ Less(SegmentWidth(7, 0), ret.svg.rightWidth)

\* The characters that separate the attributes of a tag.
TagSpace == {" ", "\\u0009", "\\u000a", "\\u000c", "\\u000d"}

\* An attribute before those that follow it in its tag.
Before(attribute, rest) ==
  [attrs |-> <<attribute>> \o rest.attrs, end |-> rest.end]

\* The attributes an HTML parser reads in a tag from position i of html on,
\* and the position after the > that ends the tag: a value is quoted by "
\* or by ' and ends with the next one, or is unquoted and ends before
\* space or >.
RECURSIVE Attributes(_, _)
AttributeFrom(html, j, k) ==
  IF k > Len(html) \/ html[k] # "="
  THEN Before([name |-> SubSeq(html, j, k - 1), value |-> <<>>],
              Attributes(html, k))
  ELSE IF k < Len(html) /\ html[k + 1] \in {"\"", "'"}
  THEN Before([name  |-> SubSeq(html, j, k - 1),
               value |-> SubSeq(html, k + 2,
                                IndexFrom(html, k + 2, {html[k + 1]}) - 1)],
              Attributes(html, IndexFrom(html, k + 2, {html[k + 1]}) + 1))
  ELSE Before([name  |-> SubSeq(html, j, k - 1),
               value |-> SubSeq(html, k + 1,
                                IndexFrom(html, k + 1,
                                          TagSpace \cup {">"}) - 1)],
              Attributes(html, IndexFrom(html, k + 1, TagSpace \cup {">"})))

Attributes(html, i) ==
  LET j == FirstOf({k \in i..Len(html) : html[k] \notin TagSpace \cup {"/"}})
  IN  IF j = 0 THEN [attrs |-> <<>>, end |-> Len(html) + 1]
      ELSE IF html[j] = ">" THEN [attrs |-> <<>>, end |-> j + 1]
      ELSE AttributeFrom(html, j,
                         IndexFrom(html, j + 1,
                                   TagSpace \cup {"=", ">", "/"}))

\* The tag that starts with the < at position i of html: its name, its
\* attributes and the position after it.
TagAt(html, i) ==
  [name |-> SubSeq(html, i + 1,
                   IndexFrom(html, i + 1, TagSpace \cup {">", "/"}) - 1),
   rest |-> Attributes(html,
                       IndexFrom(html, i + 1, TagSpace \cup {">", "/"}))]

\* The first tag of html and the one after it.
FirstTag(html) == TagAt(html, 1)

SecondTag(html) == TagAt(html, IndexFrom(html, FirstTag(html).rest.end, {"<"}))

\* The names of attributes, in their order.
Names(attrs) == [i \in 1..Len(attrs) |-> attrs[i].name]

\* The number of double quotes of s.
Quotes(s) == Cardinality({i \in 1..Len(s) : s[i] = "\""})

\* The five entities escapeHtml writes, and the character each stands for.
Entities ==
  << [text |-> <<"&", "a", "m", "p", ";">>, char |-> "&"],
     [text |-> <<"&", "l", "t", ";">>, char |-> "<"],
     [text |-> <<"&", "g", "t", ";">>, char |-> ">"],
     [text |-> <<"&", "q", "u", "o", "t", ";">>, char |-> "\""],
     [text |-> <<"&", "#", "3", "9", ";">>, char |-> "'"] >>

\* The entity that starts at position i of s, as its number; 0 for none.
EntityAt(s, i) ==
  FirstOf({e \in 1..Len(Entities) :
             /\ i + Len(Entities[e].text) - 1 <= Len(s)
             /\ SubSeq(s, i, i + Len(Entities[e].text) - 1)
                  = Entities[e].text})

\* s from position i on with every entity replaced by its character.
RECURSIVE UnescapeFrom(_, _)
UnescapeAt(s, i, j, e) ==
  IF j > Len(s) THEN SubSeq(s, i, Len(s))
  ELSE IF e = 0 THEN SubSeq(s, i, j) \o UnescapeFrom(s, j + 1)
  ELSE SubSeq(s, i, j - 1) \o <<Entities[e].char>>
         \o UnescapeFrom(s, j + Len(Entities[e].text))

UnescapeFrom(s, i) ==
  UnescapeAt(s, i, IndexFrom(s, i, {"&"}),
             IF IndexFrom(s, i, {"&"}) > Len(s) THEN 0
             ELSE EntityAt(s, IndexFrom(s, i, {"&"})))

\* The end of the HTML of generateHTMLBadge after the alt text.
HtmlTail == <<"\"", " ", "/", ">", "\\u000a", "<", "/", "a", ">">>

\* The HTML up to the alt text and the quote that ends it.
BeforeTail(html) == SubSeq(html, 1, Len(html) - Len(HtmlTail))

\* The text between the last double quote before the end of the HTML and
\* that end: the alt text the img element is given.
AltValue(html) ==
  LET body == BeforeTail(html)
      open == {i \in 1..Len(body) : body[i] = "\""}
  IN  SubSeq(body, (CHOOSE i \in open : \A k \in open : k <= i) + 1,
             Len(body))

\* generateHTMLBadge returned HTML.
Html == op = "generateHTMLBadge" /\ ~ret.threw

\* The text escapeHtml is given with the alt text v.
AltText(v) == IF v.t = "string" THEN v.s ELSE <<>>

(* C22: generateHTMLBadge escapes the alt text.  The HTML ends with        *)
(* alt="v" and the end of the img and a elements, where v holds no raw     *)
(* < > " ', every & of v starts one of &amp; &lt; &gt; &quot; &#39;, and v *)
(* with the entities read back is altText ('' when altText is not a        *)
(* string); when linkUrl and the badge URL hold no double quote, v is the  *)
(* value an HTML parser reads for the alt attribute of the img element.    *)
C22_AltTextEscaped ==
  Html =>
    /\ SubSeq(ret.code, Len(ret.code) - Len(HtmlTail) + 1, Len(ret.code))
         = HtmlTail
    /\ BeforeTail(ret.code)
         = SubSeq(ret.code, 1,
                  Len(BeforeTail(ret.code)) - Len(AltValue(ret.code)) - 7)
             \o <<"\"", " ", "a", "l", "t", "=", "\"">>
             \o AltValue(ret.code)
    /\ \A i \in 1..Len(AltValue(ret.code)) :
         /\ AltValue(ret.code)[i] \notin {"<", ">", "\"", "'"}
         /\ AltValue(ret.code)[i] = "&" => EntityAt(AltValue(ret.code), i) # 0
    /\ UnescapeFrom(AltValue(ret.code), 1) = AltText(arg.altText)
    /\ /\ Quotes(TemplateText(arg.linkUrl)) = 0
       /\ Quotes(BadgeUrlOf(arg.baseUrl, arg.badgePath)) = 0
       => /\ SecondTag(ret.code).name = <<"i", "m", "g">>
          /\ Len(SecondTag(ret.code).rest.attrs) = 2
          /\ SecondTag(ret.code).rest.attrs[2]
               = [name |-> <<"a", "l", "t">>, value |-> AltValue(ret.code)]

\* The alt text of the test, Crypto & Bitcoin, is in the HTML as the
\* attribute alt="Crypto &amp; Bitcoin".
C22_Witness ==
  /\ Html
  /\ arg.altText = Str(<<"C", "r", "y", "p", "t", "o", " ", "&", " ", "B",
                           "i", "t", "c", "o", "i", "n">>)
  /\ arg.linkUrl = Str(<<"h", "t", "t", "p", "s", ":", "/", "/", "e", "x",
                           "a", "m", "p", "l", "e", ".", "c", "o", "m">>)
  /\ SecondTag(ret.code).rest.attrs[2].value
       = <<"C", "r", "y", "p", "t", "o", " ", "&", "a", "m", "p", ";",
             " ", "B", "i", "t", "c", "o", "i", "n">>

(* C29 as claimed: in the HTML of generateHTMLBadge, and of                *)
(* generateBadgeCode with the format html, no value leaves its attribute:  *)
(* the only double quotes are the ten around the five attribute values,    *)
(* and a parser reads an a element with href, target and rel and then an   *)
(* img element with src and alt.                                           *)
C29_NoAttributeBreakout ==
  /\ \/ op = "generateHTMLBadge"
     \/ op = "generateBadgeCode" /\ ToLowerCase(TemplateText(arg.format))
                                      = <<"h", "t", "m", "l">>
  /\ ~ret.threw
  => /\ Quotes(ret.code) = 10
     /\ FirstTag(ret.code).name = <<"a">>
     /\ Names(FirstTag(ret.code).rest.attrs)
          = << <<"h", "r", "e", "f">>,
               <<"t", "a", "r", "g", "e", "t">>,
               <<"r", "e", "l">> >>
     /\ FirstTag(ret.code).rest.attrs[1].value = TemplateText(arg.linkUrl)
     /\ SecondTag(ret.code).name = <<"i", "m", "g">>
     /\ Names(SecondTag(ret.code).rest.attrs)
          = << <<"s", "r", "c">>, <<"a", "l", "t">> >>

\* The first request of the call.
Request == requests[1]

\* The call op of the client has settled.
Settled == op \in ClientCalls /\ ret.state # "pending"

\* The number each rate of the bodies of the inputs stands for, for those
\* that stand for one: a number other than zero, or a text that starts
\* with a numeral.
RateRead ==
  (Dec(45000, 0) :> Dec(45000, 0))
    @@ (Dec(30005, 1) :> Dec(30005, 1))
    @@ (Dec(-1, 0) :> Dec(-1, 0))
    @@ (Str(<<"4", "5", "0", "0", "0">>) :> Dec(45000, 0))
    @@ (Str(<<"1", "0", "4", ".", "2", "5">>) :> Dec(10425, 2))
    @@ (Str(<<"1", "2", "a", "b", "c">>) :> Dec(12, 0))
    @@ (Str(<<" ", "4", "2">>) :> Dec(42, 0))
    @@ (Str(<<".", "5", "0">>) :> Dec(5, 1))
    @@ (List(<< <<"5">> >>) :> Dec(5, 0))

\* The response of the request is ok and its body carries a rate, a
\* crypto, a fiat and a timestamp.
Carried(request) ==
  /\ request.response.ok
  /\ request.response.parsable
  /\ request.response.data.t = "object"
  /\ request.response.data.rate \in DOMAIN RateRead
  /\ request.response.data.crypto.t = "string"
  /\ request.response.data.fiat.t = "string"
  /\ request.response.data.timestamp.t = "string"

\* What getCurrentRate resolves with for the body of the request.
RateValue(request, metadata) ==
  IF metadata
  THEN [rate      |-> RateRead[request.response.data.rate],
        crypto    |-> request.response.data.crypto,
        fiat      |-> request.response.data.fiat,
        timestamp |-> request.response.data.timestamp]
  ELSE RateRead[request.response.data.rate]

FailedToFetch ==
  <<"F", "a", "i", "l", "e", "d", " ", "t", "o", " ", "f", "e", "t", "c",
    "h", " ", "e", "x", "c", "h", "a", "n", "g", "e", " ", "r", "a", "t",
    "e", " ", "f", "o", "r">>

\* C24 as claimed: getCurrentRate resolves exactly when the response is
\* ok and its body carries a rate that reads as a number other than zero,
\* a crypto, a fiat and a timestamp, with that number or with the record
\* when options.includeMetadata is set; in every other case it rejects
\* with a message that begins 'Failed to fetch exchange rate for', and so
\* it does for an empty currency code.
C24_EmptyCodeRejected ==
  (op = "getCurrentRate" /\ Settled) =>
    /\ IF Carried(Request)
       THEN ret = Resolved(RateValue(Request,
                                     arg.options.includeMetadata = Bool(TRUE)))
       ELSE /\ ret.state = "rejected"
            /\ StartsWith(ret.message, FailedToFetch)
    /\ arg.fromCurrency = Str(<<>>) => ret.state = "rejected"

\* C24: getCurrentRate settles in one of two ways.  It resolves exactly
\* when the response is ok, its body carries a rate that reads as a
\* number other than zero, a crypto, a fiat and a timestamp, and options
\* is not null, with that number, or with the record of rate, crypto,
\* fiat and timestamp when options.includeMetadata is set.  In every other
\* case, a network error, a status that is not ok, a body that is not
\* JSON, a missing or invalid field, a currency that is not a string,
\* options null, it rejects with a message that begins 'Failed to fetch
\* exchange rate for'.  The currency code is not looked at: an empty code
\* has the outcome the response gives it, as any other code has.
C24_TwoOutcomes ==
  (op = "getCurrentRate" /\ Settled) =>
    IF Carried(Request) /\ arg.options.k # "null"
    THEN ret = Resolved(RateValue(Request,
                                  arg.options.includeMetadata = Bool(TRUE)))
    ELSE /\ ret.state = "rejected"
         /\ StartsWith(ret.message, FailedToFetch)

\* The request for an empty code was answered with a rate given as a
\* text, and the call resolved with the record that holds its number.
C24_Witness ==
  /\ op = "getCurrentRate"
  /\ arg.fromCurrency = Str(<<>>)
  /\ arg.options.includeMetadata = Bool(TRUE)
  /\ Request.response.ok
  /\ Request.response.data = Data(Str(<<"1", "0", "4", ".", "2", "5">>),
                                  Str(<<"B", "T", "C">>),
                                  Str(<<"U", "S", "D">>), Timestamp,
                                  Undefined)
  /\ ret.state = "resolved"
  /\ ret.value.rate = Dec(10425, 2)

\* The body of the response of the request has an array for fiats.
WellFormed(request) ==
  /\ request.response.ok
  /\ request.response.parsable
  /\ request.response.data.t = "object"
  /\ request.response.data.fiats.t = "array"

\* getSupportedCurrencies, once settled, has resolved with the fixed
\* cryptos, and with the fiats of a well-formed response or else with
\* those of the fallback.
SupportedResolved ==
  (op = "getSupportedCurrencies" /\ Settled) =>
    /\ ret.state = "resolved"
    /\ ret.value.cryptos
         = List(<< <<"B", "T", "C">>, <<"E", "T", "H">>, <<"S", "O", "L">>,
                   <<"U", "S", "D", "C">> >>)
    /\ IF WellFormed(Request)
       THEN ret.value.fiats = Request.response.data.fiats
       ELSE /\ ret.value.fiats.n = 10
            /\ ret.value.fiats
                 = List(<< <<"U", "S", "D">>, <<"E", "U", "R">>,
                           <<"G", "B", "P">>, <<"J", "P", "Y">>,
                           <<"A", "U", "D">>, <<"C", "A", "D">>,
                           <<"C", "H", "F">>, <<"C", "N", "Y">>,
                           <<"S", "E", "K">>, <<"N", "Z", "D">> >>)


\* C25: getSupportedCurrencies never rejects.  Whatever the remote does (a
\* network failure, a status that is not ok, a body that is not JSON or
\* that has no array for fiats), the call is not rejected, it has settled
\* as soon as its request has, and once settled it has resolved with
\* cryptos BTC, ETH, SOL, USDC, and with fiats the array of the response
\* when the response is ok and has one, and the ten currencies of the
\* fallback otherwise.
C25_NeverRejects ==
  op = "getSupportedCurrencies" =>
    /\ ret.state # "rejected"
    /\ Request.pc = "done" => ret.state = "resolved"
    /\ SupportedResolved

\* The fallback after a failure of the network, and after a body whose
\* fiats is a string.
C25_Witness ==
  /\ op = "getSupportedCurrencies"
  /\ ret.state = "resolved"
  /\ ret.value.fiats = FallbackFiats
  /\ \/ Request.response = NoResponse
     \/ /\ Request.response.ok
        /\ Request.response.parsable
        /\ Request.response.data.t = "object"
        /\ Request.response.data.fiats = Str(<<"U", "S", "D">>)

\* The currencies getMultipleRates was called with.
Requested == arg.currencies.items

\* What the i-th request of getMultipleRates fetched: the rate of its
\* response when it succeeded, and null when it failed.
Fetched(i) ==
  IF Carried(requests[i]) THEN RateRead[requests[i].response.data.rate]
  ELSE Null

\* No request after the i-th is for the same currency.
LastFor(i) == \A j \in (i + 1)..Len(Requested) : Requested[j] # Requested[i]

\* getMultipleRates, once settled for an array of currencies, has resolved
\* with an object of one key for each currency, whose value is what the
\* request of that currency (the last one, when it is asked for twice)
\* fetched.
RatesResolved ==
  (op = "getMultipleRates" /\ arg.currencies.t = "array" /\ Settled) =>
    /\ ret.state = "resolved"
    /\ DOMAIN ret.value.m = {Requested[i] : i \in 1..Len(Requested)}
    /\ \A i \in 1..Len(Requested) :
         LastFor(i) => ret.value.m[Requested[i]] = Fetched(i)

\* Every request of getMultipleRates, called with an array, has settled.
AllFetched ==
  /\ op = "getMultipleRates"
  /\ arg.currencies.t = "array"
  /\ \A i \in 1..Len(requests) : requests[i].pc = "done"

\* While a request of getMultipleRates is under way the call is pending.
RatesPending ==
  (op = "getMultipleRates" /\ arg.currencies.t = "array" /\ ~AllFetched) =>
    ret.state = "pending"

\* C23: whatever requests of getMultipleRates succeed and fail, and in
\* whatever order they settle, the call resolves: while a request is
\* under way the call is pending, once every request has settled the call
\* settles, and it then has resolved with an object of one key for each
\* requested currency, whose value is the rate that currency's request
\* fetched when it succeeded and null when it failed.  A failure of one
\* request neither rejects the call nor changes the value of another
\* currency.
C23_RatesOfAllSettled ==
  /\ []RatesResolved
  /\ []RatesPending
  /\ AllFetched ~> (op = "getMultipleRates" /\ ret.state = "resolved")

====
